---- MODULE Spec2Model ----
(***************************************************************************)
(* State-machine model of the Stripo editor integration component          *)
(* (src/components/stripo-editor-customized.tsx): the Presentation Patcher *)
(* (applyPositioning, the resize handler, the panel toggles), the Identity *)
(* Resolver (getOrCreateEmailId), the Token Broker (onTokenRefreshRequest) *)
(* and the mount effect's initialization chain (loadZoneJs,                *)
(* loadStripoScript, initStripoEditor, the render watchdog, the cleanup).  *)
(*                                                                         *)
(* JavaScript runs each handler to completion, so one handler (with the    *)
(* microtasks it queues up to its first real wait) is one action.          *)
(***************************************************************************)
EXTENDS Integers, Sequences, FiniteSets, TLC

\* ------------------------------------------------------------------------
\* Program constants
\* ------------------------------------------------------------------------

\* the compact / wide breakpoint on the container width (px)
Breakpoint == 1200

\* applyPositioning: bound of the ancestor walk from ue-blocks-panel-component
maxDepth == 10

\* the render watchdog gives up at this many 500 ms polls
maxRenderChecks == 40

\* ------------------------------------------------------------------------
\* Bounds of the model
\* ------------------------------------------------------------------------

\* consecutive same-width patcher calls that are counted (the count saturates)
MaxRepeat == 2

\* localStorage.setItem calls that are counted (the count saturates)
MaxWrites == 2

\* onTokenRefreshRequest invocations the editor makes
MaxRequests == 3

\* container widths the environment may produce: both sides of the breakpoint
Widths == {1100, Breakpoint, Breakpoint + 1, 1300}

\* ------------------------------------------------------------------------
\* The editor's shadow DOM, as far as the component looks at it
\* ------------------------------------------------------------------------

UiEditor      == "ui-editor"
BlocksPanel   == "ue-blocks-panel-component"
SimplePanel   == "ue-ui-simple-panel"
ParentElement == "parentElement"
ModulesPanel  == "ue-modules-panel-component"
WidePanel     == "ue-wide-panel"
NarrowPanel   == "ue-narrow-panel"
BlockThumb    == "ue-block-thumb-component"
PanelContent  == "block-panel-content"

\* elements that may be inside the shadow root
ShadowNodes == {BlocksPanel, SimplePanel, ParentElement, ModulesPanel,
                WidePanel, NarrowPanel, BlockThumb, PanelContent}

\* elements whose inline style the component writes
StyledNodes == {UiEditor, SimplePanel, ParentElement, ModulesPanel,
                WidePanel, NarrowPanel, PanelContent}

\* elements the editor adds and removes while it runs (tab switches, re-renders)
DynamicNodes == {BlocksPanel, BlockThumb, ModulesPanel, WidePanel}

\* the depth of ue-ui-simple-panel among the ancestors of the blocks panel
\* (0: its parent); NoDepth: it is no ancestor
NoDepth == -1
Depths  == {NoDepth, 0, maxDepth - 1, maxDepth}

\* an element's inline style: "" is "no inline value for this property"
NoStyle == [transform |-> "", width |-> "", display |-> "",
            flexDirection |-> "", flexWrap |-> "", minWidth |-> ""]

VARIABLES
  \* ---- the DOM
  uiEditor,          \* "absent" | "noShadow" | "emptyShadow" | "rendered"
  nodes,             \* the elements present in the shadow root
  simpleDepth,       \* depth of the simple panel above the blocks panel
  style,             \* inline style of every styled element
  containerWidth,    \* the container's current width
  \* ---- component state (useState / useRef)
  isMobile, previousMobileRef,
  isModulesPanelVisible, isSimplePanelVisible, isWidePanelVisible,
  resizeObserverRef, \* TRUE: a ResizeObserver is connected
  ResizeObserver,    \* TRUE: typeof ResizeObserver !== "undefined" on this page
  resizeListeners,   \* number of window "resize" listeners of the fallback
  mutationObserver,  \* TRUE: the shadow-root MutationObserver is connected
  \* ---- history (observation only)
  lastCall,          \* width of the patcher call that was the last event, or -1
  callsSame,         \* consecutive patcher calls with that width (saturating)
  firstStyle, firstVis,  \* the state after the first call of that run
  rtPhase, rtStyle,  \* the 1300 -> 1100 -> 1300 round trip
  userHidden,        \* panels the user hid with their toggle and has not shown since
  \* ---- Persistent Identity Store and the identity handed to the editor
  localStorage,      \* localStorage.getItem(STORAGE_KEY): an id, or Null
  props,             \* the component's props: [emailId, create, html]
  resolveCount,      \* resolutions without explicit identity since the last clear
  lastInit,          \* the last resolution: props, emailIdToUse and finalHtml
  proxy,             \* a POST to /api/stripo/create-template and its response
  resolvedIds,       \* ids resolved without explicit identity since the last clear
  storeWrites,       \* localStorage.setItem calls since the last clear (saturating)
  page,              \* the editor page's state and its template fetches in flight
  storage,           \* every entry of window.localStorage: a sequence of [key, value]
  lastClear,         \* the last clearStripoStorage call: its options, the entries before
  \* ---- Token Broker
  tokenRef,          \* tokenRef.current: the cached token, or Null
  fetches,           \* getStripoToken() calls in flight: [id, kind]
  handlerRegistered, \* initEditor has been given onTokenRefreshRequest
  requests,          \* onTokenRefreshRequest invocations so far
  callbackLog,       \* the tokens handed to the editor's callback, in order
  hadSuccess,        \* some token fetch has completed successfully
  lastReq,           \* how the last onTokenRefreshRequest answered
  lastOutcome,       \* the last completed fetch: [id, kind, ok, token]
  lastNotification,  \* the last call of notifications.error: [message, shown]
  \* ---- the mount effect and its initialization chains
  containerRef,      \* containerRef.current is an element (the component is mounted)
  effectLive,        \* an effect run has returned its cleanup, which has not run yet
  editorInitializedRef,
  loadingState, errorMessage,
  UIEditor,          \* window.UIEditor is defined
  uiScriptCount,     \* script elements with id UiEditorScript in the document
  Zone,              \* window.Zone is defined
  zoneScripts,       \* a script element of zone.js is in the document
  uiScriptState,     \* "none" | "loading" | "loaded" | "failed"
  uiEditorCheckIntervalRef, \* the chain whose 100 ms poll the ref holds, or 0
  editorAttached,    \* initEditor has taken the container since it was last emptied
  chains,            \* the initialization chain each effect run started
  effectRuns,        \* effect runs that started a chain
  attemptFinal       \* the first of loaded / error reached in the current attempt

domVars   == <<uiEditor, nodes, simpleDepth, style, containerWidth>>
patchVars == <<isMobile, previousMobileRef, isModulesPanelVisible,
               isSimplePanelVisible, isWidePanelVisible, resizeObserverRef,
               ResizeObserver, resizeListeners, mutationObserver>>
histVars  == <<lastCall, callsSame, firstStyle, firstVis, rtPhase, rtStyle,
               userHidden>>
auxVars   == <<page, storage, lastClear>>
identVars == <<localStorage, props, resolveCount, lastInit, resolvedIds,
               storeWrites, proxy, auxVars>>
tokenVars == <<tokenRef, fetches, handlerRegistered, requests, callbackLog,
               hadSuccess, lastReq, lastOutcome, lastNotification>>
lifeVars  == <<containerRef, effectLive, editorInitializedRef, loadingState,
               errorMessage, UIEditor, uiScriptCount, Zone, zoneScripts, uiScriptState,
               uiEditorCheckIntervalRef, editorAttached, chains, effectRuns,
               attemptFinal>>
vars      == <<domVars, patchVars, histVars, identVars, tokenVars, lifeVars>>

\* JavaScript's null / undefined
Null == "null"

\* ------------------------------------------------------------------------
\* Presentation Patcher
\* ------------------------------------------------------------------------

\* element.style.setProperty(p, v, "important") / element.style.removeProperty(p)
setProperty(s, p, v) == [s EXCEPT ![p] = v]
removeProperty(s, p) == [s EXCEPT ![p] = ""]

TranslateX  == "translateX(10px)"
TranslateXY == "translateX(10px) translateY(20px)"

\* a helper for which a container of exactly 1200px is already wide
applyResponsiveStylingStrict(s, elementName, w) ==
  LET transformValue == IF w < Breakpoint THEN TranslateXY ELSE TranslateX
      s1 == setProperty(s, "transform", transformValue)
      widthValue == IF elementName = SimplePanel THEN "400px" ELSE "100px"
  IN  IF w < Breakpoint THEN setProperty(s1, "width", widthValue)
                        ELSE removeProperty(s1, "width")

applyResponsiveStyling(s, elementName, w) ==
  LET transformValue == IF w <= Breakpoint THEN TranslateXY ELSE TranslateX
      s1 == setProperty(s, "transform", transformValue)
      widthValue == IF elementName = SimplePanel THEN "400px" ELSE "100px"
  IN  IF w <= Breakpoint THEN setProperty(s1, "width", widthValue)
                         ELSE removeProperty(s1, "width")

\* a panelDisplay that flips the override on compact instead of setting it
panelDisplayToggling(s, w) ==
  IF w <= Breakpoint
    THEN IF s.display = "none" THEN removeProperty(s, "display")
                               ELSE setProperty(s, "display", "none")
    ELSE removeProperty(s, "display")

\* display: none on compact, the override removed on wide
panelDisplay(s, w) ==
  IF w <= Breakpoint THEN setProperty(s, "display", "none")
                     ELSE removeProperty(s, "display")

\* the wrapping flex row on compact, the three overrides removed on wide
flexRow(s, w) ==
  IF w <= Breakpoint
    THEN setProperty(setProperty(setProperty(s, "display", "flex"),
                                 "flexDirection", "row"), "flexWrap", "wrap")
    ELSE removeProperty(removeProperty(removeProperty(s, "display"),
                                       "flexDirection"), "flexWrap")

\* a walk that looks at one ancestor more
walkFindsSimplePanelInclusive(nd, depth) ==
  /\ SimplePanel \in nd
  /\ depth # NoDepth
  /\ depth <= maxDepth

\* the walk from blocksPanel.parentElement up: the simple panel is found when it
\* is an ancestor at a depth below maxDepth
walkFindsSimplePanel(nd, depth) ==
  /\ SimplePanel \in nd
  /\ depth # NoDepth
  /\ depth < maxDepth

\* applyPositioning(width): the new inline styles and visibility flags
ApplyPositioning(st, vis, ed, nd, depth, w) ==
  IF ed \notin {"emptyShadow", "rendered"} THEN [style |-> st, vis |-> vis]
  ELSE
  LET s0 == [st EXCEPT ![UiEditor] =
               IF w <= Breakpoint THEN setProperty(@, "minWidth", "0")
                                  ELSE removeProperty(@, "minWidth")]
      found == BlocksPanel \in nd /\ walkFindsSimplePanel(nd, depth)
      s1 == IF BlocksPanel \notin nd THEN s0
            ELSE IF found
              THEN [s0 EXCEPT ![SimplePanel] =
                      panelDisplay(applyResponsiveStyling(@, SimplePanel, w), w)]
            ELSE IF ParentElement \in nd
              THEN [s0 EXCEPT ![ParentElement] = setProperty(@, "transform",
                      IF w <= Breakpoint THEN TranslateXY ELSE TranslateX)]
            ELSE s0
      s2 == IF ModulesPanel \in nd
              THEN [s1 EXCEPT ![ModulesPanel] =
                      panelDisplay(applyResponsiveStyling(@, ModulesPanel, w), w)]
              ELSE s1
      s3 == IF WidePanel \in nd
              THEN [s2 EXCEPT ![WidePanel] = panelDisplay(@, w)]
              ELSE s2
      s4 == IF NarrowPanel \in nd /\ BlockThumb \in nd
              THEN [s3 EXCEPT ![NarrowPanel] = flexRow(@, w)]
              ELSE s3
      s5 == IF PanelContent \in nd
              THEN [s4 EXCEPT ![PanelContent] = flexRow(@, w)]
              ELSE s4
      v  == [simple  |-> IF found THEN w > Breakpoint ELSE vis.simple,
             modules |-> IF ModulesPanel \in nd THEN w > Breakpoint ELSE vis.modules,
             wide    |-> IF WidePanel \in nd THEN w > Breakpoint ELSE vis.wide]
  IN  [style |-> s5, vis |-> v]

Vis == [simple  |-> isSimplePanelVisible,
        modules |-> isModulesPanelVisible,
        wide    |-> isWidePanelVisible]

Present(n) == n = UiEditor \/ n \in nodes

\* the shadow trees the editor may have rendered
Layouts ==
  { l \in [depth : Depths, simple : BOOLEAN, parent : BOOLEAN] :
      /\ l.depth = 0 => l.simple /\ ~l.parent
      /\ l.depth > 0 => l.simple /\ l.parent }

LayoutNodes(l) ==
  DynamicNodes \cup {NarrowPanel, PanelContent}
    \cup (IF l.simple THEN {SimplePanel} ELSE {})
    \cup (IF l.parent THEN {ParentElement} ELSE {})

AllVisible == [simple |-> TRUE, modules |-> TRUE, wide |-> TRUE]

\* the history of consecutive same-width patcher calls, after a call with width w
\* that left the styles st and the flags v
NoteCall(w, st, v, fresh) ==
  /\ lastCall' = w
  /\ IF lastCall = w /\ ~fresh
       THEN /\ callsSame' = IF callsSame < MaxRepeat THEN callsSame + 1 ELSE callsSame
            /\ UNCHANGED <<firstStyle, firstVis>>
       ELSE /\ callsSame' = 1
            /\ firstStyle' = st
            /\ firstVis' = v

\* an event other than a patcher call ends the run; st and v are the state it leaves
NoteOther(st, v) ==
  /\ lastCall' = -1
  /\ callsSame' = 0
  /\ firstStyle' = st
  /\ firstVis' = v

\* the round trip 1300 -> 1100 -> 1300: "wide" is a state produced by patching
\* at 1300 (rtStyle: that state), "compact" the state after the resize to 1100
\* and whatever the editor and the user did then, "back" the state the resize
\* back to 1300 leaves; outside a round trip rtStyle follows the current style
NoteResize(w, st) ==
  IF w = 1300
    THEN IF rtPhase = "compact"
           THEN rtPhase' = "back" /\ UNCHANGED rtStyle
           ELSE rtPhase' = "wide" /\ rtStyle' = st
    ELSE IF w = 1100 /\ rtPhase = "wide"
           THEN rtPhase' = "compact" /\ UNCHANGED rtStyle
           ELSE rtPhase' = "none" /\ rtStyle' = st

\* a DOM mutation or a toggle: patched says that applyPositioning ran after it
NoteEvent(patched, st) ==
  IF rtPhase = "compact" THEN UNCHANGED <<rtPhase, rtStyle>>
  ELSE IF rtPhase = "wide" /\ patched
    THEN rtPhase' = "wide" /\ rtStyle' = st
  ELSE rtPhase' = "none" /\ rtStyle' = st

SetVis(v) ==
  /\ isSimplePanelVisible' = v.simple
  /\ isModulesPanelVisible' = v.modules
  /\ isWidePanelVisible' = v.wide

\* a resize callback without the restore step
restorePanelsNone(st, nd) == st

\* the part of the resize callback run when the container leaves compact:
\* every panel found by querySelector is shown again
restorePanels(st, nd) ==
  [n \in StyledNodes |->
     IF n \in {ModulesPanel, SimplePanel, WidePanel} /\ n \in nd
       THEN removeProperty(st[n], "display") ELSE st[n]]

restoreVis(vis, nd) ==
  [simple  |-> IF SimplePanel \in nd THEN TRUE ELSE vis.simple,
   modules |-> IF ModulesPanel \in nd THEN TRUE ELSE vis.modules,
   wide    |-> IF WidePanel \in nd THEN TRUE ELSE vis.wide]

\* ResizeObserver callback (and the window resize fallback) for a new width w
Resize(w) ==
  /\ resizeObserverRef \/ resizeListeners > 0
  /\ uiEditor = "rendered"
  /\ LET wasMobile == previousMobileRef
         mobile    == w <= Breakpoint
         leave     == wasMobile /\ ~mobile
         st0 == IF leave THEN restorePanels(style, nodes) ELSE style
         v0  == IF leave THEN restoreVis(Vis, nodes) ELSE Vis
         r   == ApplyPositioning(st0, v0, uiEditor, nodes, simpleDepth, w)
     IN  /\ previousMobileRef' = mobile
         /\ isMobile' = mobile
         /\ style' = r.style
         /\ SetVis(r.vis)
         /\ NoteCall(w, r.style, r.vis, FALSE)
         /\ NoteResize(w, r.style)
         /\ userHidden' = IF ~wasMobile /\ mobile THEN {} ELSE userHidden
  /\ containerWidth' = w
  /\ UNCHANGED <<uiEditor, nodes, simpleDepth, resizeObserverRef, ResizeObserver,
                 resizeListeners, mutationObserver>>
  /\ UNCHANGED <<identVars, tokenVars, lifeVars>>

\* the editor adds or removes an element of its shadow root; while the
\* MutationObserver is connected its callback runs applyPositioning() with the
\* container's measured width before any other task
DomMutate(n) ==
  /\ uiEditor = "rendered"
  /\ n \in DynamicNodes
  /\ n = BlockThumb => NarrowPanel \in nodes
  /\ LET nd  == IF n \in nodes THEN nodes \ {n} ELSE nodes \cup {n}
         st0 == [m \in StyledNodes |-> IF m = n THEN NoStyle ELSE style[m]]
         r   == IF mutationObserver
                  THEN ApplyPositioning(st0, Vis, uiEditor, nd, simpleDepth,
                                        containerWidth)
                  ELSE [style |-> st0, vis |-> Vis]
     IN  /\ nodes' = nd
         /\ style' = r.style
         /\ SetVis(r.vis)
         /\ IF mutationObserver
              THEN NoteCall(containerWidth, r.style, r.vis, TRUE)
              ELSE NoteOther(r.style, r.vis)
         /\ NoteEvent(mutationObserver, r.style)
         /\ userHidden' = userHidden \ {n}
  /\ UNCHANGED <<uiEditor, simpleDepth, containerWidth, isMobile,
                 previousMobileRef, resizeObserverRef, ResizeObserver,
                 resizeListeners, mutationObserver>>
  /\ UNCHANGED <<identVars, tokenVars, lifeVars>>

\* setTimeout(() => observer.disconnect(), 10000)
MutationObserverTimeout ==
  /\ mutationObserver
  /\ mutationObserver' = FALSE
  /\ UNCHANGED <<domVars, isMobile, previousMobileRef, isModulesPanelVisible,
                 isSimplePanelVisible, isWidePanelVisible, resizeObserverRef,
                 ResizeObserver, resizeListeners, histVars>>
  /\ UNCHANGED <<identVars, tokenVars, lifeVars>>

\* a panel toggle: show removes the display override, hide sets display: none
togglePanel(panel, visible, v) ==
  /\ isMobile
  /\ uiEditor \in {"emptyShadow", "rendered"}
  /\ panel \in nodes
  /\ LET st == [style EXCEPT ![panel] =
                  IF ~visible THEN removeProperty(@, "display")
                              ELSE setProperty(@, "display", "none")]
     IN  /\ style' = st
         /\ SetVis(v)
         /\ NoteOther(st, v)
         /\ NoteEvent(FALSE, st)
         /\ userHidden' = IF visible THEN userHidden \cup {panel}
                                      ELSE userHidden \ {panel}
  /\ UNCHANGED <<uiEditor, nodes, simpleDepth, containerWidth, isMobile,
                 previousMobileRef, resizeObserverRef, ResizeObserver,
                 resizeListeners, mutationObserver>>
  /\ UNCHANGED <<identVars, tokenVars, lifeVars>>

toggleModulesPanel ==
  togglePanel(ModulesPanel, isModulesPanelVisible,
              [Vis EXCEPT !.modules = ~isModulesPanelVisible])

toggleSimplePanel ==
  togglePanel(SimplePanel, isSimplePanelVisible,
              [Vis EXCEPT !.simple = ~isSimplePanelVisible])

toggleWidePanel ==
  togglePanel(WidePanel, isWidePanelVisible,
              [Vis EXCEPT !.wide = ~isWidePanelVisible])

\* ------------------------------------------------------------------------
\* Identity Resolver
\* ------------------------------------------------------------------------

\* identities getOrCreateEmailId may generate: email-<Date.now()>-<random>
GenIds == {"email-1-a", "email-2-b", "email-3-c"}

\* identities a caller may pass as the emailId prop
ExplicitIds == {"tmpl-7", "tmpl-8", "tmpl-9"}

\* JavaScript truthiness of a string-or-null value
Truthy(x) == x # Null /\ x # ""

\* a getOrCreateEmailId that never reads the store
getOrCreateEmailIdAlwaysNew(store, fresh) ==
  [id |-> fresh, store |-> fresh, wrote |-> TRUE]

\* getOrCreateEmailId(): the stored id when there is one, else a new id that is
\* stored at once; fresh is the id Date.now() and Math.random() would produce
getOrCreateEmailId(store, fresh) ==
  IF Truthy(store)
    THEN [id |-> store, store |-> store, wrote |-> FALSE]
    ELSE [id |-> fresh, store |-> fresh, wrote |-> TRUE]

\* a createHelloWorldTemplate that generates an id without storing it
createHelloWorldTemplateEphemeral(store, fresh) ==
  [id |-> fresh, store |-> store, wrote |-> FALSE]

createHelloWorldTemplate(store, fresh) ==
  LET existing == getOrCreateEmailId(store, fresh)
  IN  IF Truthy(existing.id) THEN existing
      ELSE getOrCreateEmailId(existing.store, fresh)

\* initStripoEditor, "Determine emailId to use": emailIdToUse and the store
resolveEmailId(provided, shouldCreate, store, fresh) ==
  IF Truthy(provided)
    THEN [id |-> provided, store |-> store, wrote |-> FALSE]
    ELSE LET r == IF shouldCreate THEN createHelloWorldTemplate(store, fresh)
                                  ELSE getOrCreateEmailId(store, fresh)
         IN  IF Truthy(r.id) THEN r
             ELSE getOrCreateEmailId(r.store, fresh)

\* DEFAULT_HTML, and an html prop supplied by the caller
DefaultHtml == "DEFAULT_HTML"

CustomHtml == "<p>custom</p>"

\* htmlToUse after the resolution: the html prop, or DEFAULT_HTML for a template
htmlToUse(p) ==
  IF ~Truthy(p.html) /\ p.create THEN DefaultHtml ELSE p.html

\* const finalHtml = htmlToUse || providedHtml || DEFAULT_HTML
finalHtml(p) ==
  IF Truthy(htmlToUse(p)) THEN htmlToUse(p)
  ELSE IF Truthy(p.html) THEN p.html
  ELSE DefaultHtml

NoInit == [provided |-> Null, create |-> FALSE, emailId |-> Null, html |-> Null]

Saturate(n, max) == IF n < max THEN n + 1 ELSE n

\* the identity resolution of one initStripoEditor run under the props p
ResolveWith(p, fresh) ==
  LET r == resolveEmailId(p.emailId, p.create, localStorage, fresh)
      implicit == ~Truthy(p.emailId)
  IN  /\ localStorage' = r.store
      /\ lastInit' = [provided |-> p.emailId, create |-> p.create,
                      emailId |-> r.id, html |-> finalHtml(p)]
      /\ resolvedIds' = IF implicit THEN resolvedIds \cup {r.id} ELSE resolvedIds
      /\ resolveCount' = IF implicit THEN Saturate(resolveCount, MaxWrites)
                                     ELSE resolveCount
      /\ storeWrites' = IF r.wrote THEN Saturate(storeWrites, MaxWrites)
                                   ELSE storeWrites

\* a mount with the props p whose initStripoEditor reaches the resolution
ResolveIdentity(p) ==
  /\ props' = p
  /\ UNCHANGED <<proxy, auxVars>>
  /\ \E fresh \in GenIds : ResolveWith(p, fresh)
  /\ UNCHANGED <<domVars, patchVars, histVars, tokenVars, lifeVars>>

\* clearStripoStorage() with its default options: the key is removed
clearStripoStorage ==
  /\ localStorage' = Null
  /\ lastInit' = NoInit
  /\ resolvedIds' = {}
  /\ resolveCount' = 0
  /\ storeWrites' = 0
  /\ UNCHANGED <<props, proxy, auxVars>>
  /\ UNCHANGED <<domVars, patchVars, histVars, tokenVars, lifeVars>>

\* ------------------------------------------------------------------------
\* Template creation proxy (POST /api/stripo/create-template)
\* ------------------------------------------------------------------------

\* what a request and the remote calls it leads to may be: the body of the
\* request, the API key of the environment, the outcome of the fetch to each of
\* the three endpoints, and the body of the first 2xx answer
ProxyRequests ==
  [body : {"object", "null", "unparsable"},
   apiKey : BOOLEAN,
   endpoints : [1..3 -> {"ok", "status", "throws"}],
   remote : {"id", "noId", "unparsable"}]

NoProxy == [phase |-> "none"]

\* the handler's answer: status, emailId, and whether the id was generated here
ProxyResponse(status, emailId, generated) ==
  [status |-> status, emailId |-> emailId, generated |-> generated]

\* export async function POST(request)
POST(req) ==
  IF req.body = "unparsable" THEN ProxyResponse(400, Null, FALSE)
  ELSE IF req.body = "null" THEN ProxyResponse(500, Null, FALSE)
  ELSE IF ~req.apiKey THEN ProxyResponse(500, Null, FALSE)
  ELSE IF \A i \in 1..3 : req.endpoints[i] # "ok"
    THEN ProxyResponse(200, "email-1-a", TRUE)
  ELSE IF req.remote = "unparsable" THEN ProxyResponse(500, Null, FALSE)
  ELSE IF req.remote = "noId" THEN ProxyResponse(500, Null, FALSE)
  ELSE ProxyResponse(200, "tmpl-7", FALSE)

\* the route handler runs on a request
ProxyPost ==
  /\ proxy.phase = "request"
  /\ proxy' = [phase |-> "responded", request |-> proxy.request,
                response |-> POST(proxy.request)]
  /\ UNCHANGED <<localStorage, props, resolveCount, lastInit, resolvedIds,
                 storeWrites, auxVars>>
  /\ UNCHANGED <<domVars, patchVars, histVars, tokenVars, lifeVars>>

\* ------------------------------------------------------------------------
\* Editor page (src/app/editor/page.tsx): template selection
\* ------------------------------------------------------------------------

\* template selections an analysis follows
MaxSelections == 3

\* the templates with a Stripo templateId, and the blank one
RemoteTemplates == {"newsletter-basic", "promotional-basic"}
PageTemplates == RemoteTemplates \cup {"blank"}

\* data.html and data.css of GET /api/stripo/templates/<templateId>
TemplateHtml(t) == <<"html", t>>
TemplateCss(t) == <<"css", t>>

\* how the fetch of loadTemplateContent may end: a body with html and css, a
\* response that is not ok, a body with an error field, a throw (the 30 s
\* timeout included)
PageOutcomes == {"ok", "notOk", "dataError", "throws"}

\* useState initial values, after the effect's first run (no template selected:
\* HTML and CSS cleared, templateKey incremented); issued counts the selections
NoPage ==
  [selectedTemplate |-> Null, templateHtml |-> Null, templateCss |-> Null,
   loadingTemplate |-> FALSE, templateError |-> Null, templateKey |-> 1,
   fetches |-> {}, issued |-> 0]

\* clearStripoStorage has not been called; a storageKey left undefined is <<>>
NoClear ==
  [called |-> FALSE, options |-> [storageKey |-> <<>>, clearAll |-> FALSE],
   before |-> <<>>]

AuxIdle ==
  /\ page = NoPage
  /\ storage = <<>>
  /\ lastClear = NoClear

\* handleTemplateSelect(template) and the effect its state change runs
handleTemplateSelect(t) ==
  /\ page.issued < MaxSelections
  /\ t \in PageTemplates \cup {Null}
  /\ t # page.selectedTemplate
  /\ page' =
       IF t = Null \/ t = "blank"
         THEN [page EXCEPT !.selectedTemplate = t,
                           !.templateHtml = Null,
                           !.templateCss = Null,
                           !.templateKey = @ + 1,
                           !.issued = @ + 1]
         ELSE [page EXCEPT !.selectedTemplate = t,
                           !.loadingTemplate = TRUE,
                           !.templateError = Null,
                           !.fetches = @ \cup {[id |-> page.issued + 1,
                                                template |-> t]},
                           !.issued = @ + 1]
  /\ UNCHANGED <<storage, lastClear>>
  /\ UNCHANGED <<localStorage, props, resolveCount, lastInit, resolvedIds,
                 storeWrites, proxy>>
  /\ UNCHANGED <<domVars, patchVars, histVars, tokenVars, lifeVars>>

\* the fetch f of loadTemplateContent settles with the outcome o; the finally
\* block (and each early return) sets loadingTemplate to false
loadTemplateContentSettles(f, o) ==
  /\ f \in page.fetches
  /\ o \in PageOutcomes
  /\ page' =
       IF o = "ok"
         THEN [page EXCEPT !.fetches = @ \ {f},
                           !.templateHtml = TemplateHtml(f.template),
                           !.templateCss = TemplateCss(f.template),
                           !.templateKey = @ + 1,
                           !.loadingTemplate = FALSE]
         ELSE [page EXCEPT !.fetches = @ \ {f},
                           !.templateError = <<o, f.template>>,
                           !.templateHtml = Null,
                           !.templateCss = Null,
                           !.loadingTemplate = FALSE]
  /\ UNCHANGED <<storage, lastClear>>
  /\ UNCHANGED <<localStorage, props, resolveCount, lastInit, resolvedIds,
                 storeWrites, proxy>>
  /\ UNCHANGED <<domVars, patchVars, histVars, tokenVars, lifeVars>>

\* ------------------------------------------------------------------------
\* Token Broker
\* ------------------------------------------------------------------------

Tokens == {"tok-a", "tok-b"}

\* what the token endpoint may put in data.token of a 200 answer: the route
\* passes the upstream field through, so it may be empty or missing (Null)
ReturnedTokens == Tokens \cup {"", Null}

\* what an awaited getStripoToken() does: returns data.token, or throws
Outcomes == {[ok |-> TRUE, token |-> t] : t \in ReturnedTokens}
              \cup {[ok |-> FALSE, token |-> Null]}

\* token.length / token.substring of the success log throw on a missing token
lengthThrows(token) == token = Null

\* a fetch that resolved with a usable token
tokenReceived(o) == o.ok /\ Truthy(o.token)

NoOutcome == [id |-> 0, kind |-> "none", ok |-> FALSE, token |-> Null]

\* if (tokenRef.current)
answersFromCache(tok) == Truthy(tok)

\* the editor invokes onTokenRefreshRequest(callback)
onTokenRefreshRequest ==
  /\ handlerRegistered
  /\ requests < MaxRequests
  /\ requests' = requests + 1
  /\ IF answersFromCache(tokenRef)
       THEN /\ callbackLog' = Append(callbackLog, tokenRef)
            /\ fetches' = fetches \cup {[id |-> requests + 1, kind |-> "background"]}
            /\ lastReq' = "cache"
       ELSE /\ callbackLog' = callbackLog
            /\ fetches' = fetches \cup {[id |-> requests + 1, kind |-> "fallback"]}
            /\ lastReq' = "fetch"
  /\ UNCHANGED <<tokenRef, handlerRegistered, hadSuccess, lastOutcome,
                 lastNotification>>
  /\ UNCHANGED <<domVars, patchVars, histVars, identVars, lifeVars>>

\* the getStripoToken() of a background refresh or of the no-cache path settles
FetchDone(f, o) ==
  /\ f \in fetches
  /\ f.kind \in {"background", "fallback"}
  /\ fetches' = fetches \ {f}
  /\ tokenRef' = IF o.ok THEN o.token ELSE tokenRef
  /\ callbackLog' = IF o.ok /\ f.kind = "fallback" /\ ~lengthThrows(o.token)
                      THEN Append(callbackLog, o.token) ELSE callbackLog
  /\ hadSuccess' = (hadSuccess \/ tokenReceived(o))
  /\ lastOutcome' = [id |-> f.id, kind |-> f.kind, ok |-> o.ok, token |-> o.token]
  /\ UNCHANGED <<handlerRegistered, requests, lastReq, lastNotification>>
  /\ UNCHANGED <<domVars, patchVars, histVars, identVars, lifeVars>>

\* ------------------------------------------------------------------------
\* Notification sink (notifications.error of the initEditor configuration)
\* ------------------------------------------------------------------------

\* messages the editor may report, as the words of message.toString()
Messages ==
  { <<"Emails", "limit", "exceeded">>,
    <<"Quota", "Exceeded">>,
    <<"403", "Forbidden">>,
    <<"connection", "lost">>,
    <<"Template", "not", "found">> }

NoNotification == [kind |-> "none", message |-> <<>>, shown |-> FALSE]

\* String.prototype.toLowerCase on the words used here
toLowerCase(w) ==
  CASE w = "Forbidden" -> "forbidden"
    [] w = "Exceeded" -> "exceeded"
    [] w = "Emails" -> "emails"
    [] w = "Quota" -> "quota"
    [] w = "Template" -> "template"
    [] w = "Stripo" -> "stripo"
    [] w = "STRIPO" -> "stripo"
    [] w = "Cache" -> "cache"
    [] OTHER -> w

\* messageStr.includes(w): case-sensitive
includes(message, w) == \E i \in 1..Len(message) : message[i] = w

\* combinedMessage.includes(w): message and params lower-cased (params are {})
includesLower(message, w) ==
  \E i \in 1..Len(message) : toLowerCase(message[i]) = w

\* notifications.error: TRUE when the message reaches console.error
errorShown(message) ==
  IF \/ includes(message, "403")
     \/ includesLower(message, "plugins/config")
     \/ includesLower(message, "forbidden")
    THEN FALSE
  ELSE IF \/ includes(message, "connection")
          \/ includes(message, "limit")
          \/ includes(message, "exceeded")
    THEN FALSE
  ELSE TRUE

\* a sink that surfaces what it receives in the component's state
sinkSurfaces ==
  /\ loadingState' = "error"
  /\ errorMessage' = "Editor error"
  /\ UNCHANGED <<containerRef, effectLive, editorInitializedRef, UIEditor,
                 uiScriptCount, Zone, zoneScripts, uiScriptState,
                 uiEditorCheckIntervalRef, editorAttached, chains, effectRuns,
                 attemptFinal>>
  /\ UNCHANGED <<domVars, patchVars, histVars, identVars>>

\* the notification callbacks only log: no state of the component is written
sinkFrame ==
  UNCHANGED <<domVars, patchVars, histVars, identVars, lifeVars>>

\* the editor calls notifications.error(message, id, params)
notificationsError(message) ==
  /\ handlerRegistered
  /\ lastNotification' = [kind |-> "error", message |-> message,
                          shown |-> errorShown(message)]
  /\ UNCHANGED <<tokenRef, fetches, handlerRegistered, requests, callbackLog,
                 hadSuccess, lastReq, lastOutcome>>
  /\ sinkFrame

\* the editor calls notifications.info / warn / success: console.info,
\* console.warn, console.log
notificationsLog(kind, message) ==
  /\ handlerRegistered
  /\ lastNotification' = [kind |-> kind, message |-> message, shown |-> TRUE]
  /\ UNCHANGED <<tokenRef, fetches, handlerRegistered, requests, callbackLog,
                 hadSuccess, lastReq, lastOutcome>>
  /\ sinkFrame

\* ------------------------------------------------------------------------
\* Bootstrap Sequencer, Lifecycle Controller and render watchdog
\* ------------------------------------------------------------------------

\* the chain of the effect run at mount and the chain of its StrictMode replay
Chains == {1, 2}

NoChain == [pc |-> "none", zone |-> "none", zoneAttempts |-> 0,
            timeout10 |-> FALSE,
            prefetch |-> "none", initCalled |-> FALSE, uiAtInit |-> FALSE,
            renderCheckCount |-> 0, outcome |-> "none"]

AllNoStyle == [n \in StyledNodes |-> NoStyle]

stateVars == <<loadingState, errorMessage, attemptFinal>>

\* setErrorMessage(msg); setLoadingState(v)
setLoadingState(v, msg) ==
  /\ loadingState' = v
  /\ errorMessage' = msg
  /\ attemptFinal' = IF attemptFinal = Null THEN v ELSE attemptFinal

\* container.innerHTML = "": the editor's elements leave the document
ClearDom ==
  /\ uiEditor' = "absent"
  /\ nodes' = {}
  /\ simpleDepth' = NoDepth
  /\ style' = AllNoStyle
  /\ editorAttached' = FALSE
  /\ NoteOther(AllNoStyle, Vis)
  /\ rtPhase' = "none"
  /\ userHidden' = {}
  /\ rtStyle' = AllNoStyle
  /\ UNCHANGED containerWidth

setChain(c, ch) == chains' = [chains EXCEPT ![c] = ch]

\* a cleanup that leaves the guard as the effect set it
guardAfterCleanupKept == TRUE

\* cleanup: editorInitializedRef.current = false
guardAfterCleanup == FALSE

\* window.addEventListener("unhandledrejection" / "error") in the effect,
\* removeEventListener in its cleanup: attached while a cleanup is owed
errorListeners == effectLive

\* if (editorInitializedRef.current) return
guardBlocks(initialized) == initialized

\* the effect at mount, up to the start of the chain (the chain's steps are
\* asynchronous); the dependency array is empty, so this is the only run React
\* makes on its own
MountEffect ==
  /\ containerRef
  /\ ~effectLive
  /\ effectRuns = 0
  /\ IF guardBlocks(editorInitializedRef)
       THEN UNCHANGED <<stateVars, editorInitializedRef, chains, effectRuns,
                        effectLive>>
       ELSE /\ loadingState' = "loading"
            /\ errorMessage' = Null
            /\ attemptFinal' = Null
            /\ editorInitializedRef' = TRUE
            /\ effectRuns' = 1
            /\ setChain(1, [NoChain EXCEPT !.pc = "loadZoneJs", !.zone = "pending"])
            /\ effectLive' = TRUE
  /\ UNCHANGED <<containerRef, UIEditor, uiScriptCount, Zone, zoneScripts, uiScriptState,
                 uiEditorCheckIntervalRef, editorAttached>>
  /\ UNCHANGED <<domVars, patchVars, histVars, identVars, tokenVars>>

\* React StrictMode replays the mount: in the commit of the first effect run it
\* calls the cleanup the effect returned and then the effect again, on the same
\* instance and the same refs, before any asynchronous step of the first chain
StrictReplay ==
  /\ containerRef
  /\ effectLive
  /\ effectRuns = 1
  /\ chains[1].pc = "loadZoneJs"
  /\ uiEditorCheckIntervalRef' = 0
  /\ resizeListeners' = 0
  /\ resizeObserverRef' = FALSE
  /\ ClearDom
  /\ LET afterCleanup == guardAfterCleanup
     IN  IF guardBlocks(afterCleanup)
           THEN /\ editorInitializedRef' = afterCleanup
                /\ effectLive' = FALSE
                /\ UNCHANGED <<stateVars, chains, effectRuns>>
           ELSE /\ loadingState' = "loading"
                /\ errorMessage' = Null
                /\ attemptFinal' = Null
                /\ editorInitializedRef' = TRUE
                /\ effectRuns' = 2
                /\ setChain(2, [NoChain EXCEPT !.pc = "loadZoneJs",
                                               !.zone = "pending"])
                /\ effectLive' = TRUE
  /\ UNCHANGED <<containerRef, UIEditor, uiScriptCount, Zone, zoneScripts, uiScriptState>>
  /\ UNCHANGED <<isMobile, previousMobileRef, isModulesPanelVisible,
                 isSimplePanelVisible, isWidePanelVisible, ResizeObserver,
                 mutationObserver>>
  /\ UNCHANGED <<identVars, tokenVars>>

\* React unmounts the component: the container leaves the document, the ref is
\* detached, then the effect's cleanup runs
Unmount ==
  /\ containerRef
  /\ containerRef' = FALSE
  /\ ClearDom
  /\ IF effectLive
       THEN /\ effectLive' = FALSE
            /\ uiEditorCheckIntervalRef' = 0
            /\ resizeListeners' = 0
            /\ resizeObserverRef' = FALSE
            /\ editorInitializedRef' = guardAfterCleanup
       ELSE UNCHANGED <<effectLive, uiEditorCheckIntervalRef, resizeObserverRef,
                        resizeListeners, editorInitializedRef>>
  /\ UNCHANGED <<stateVars, UIEditor, uiScriptCount, Zone, zoneScripts, uiScriptState, chains,
                 effectRuns>>
  /\ UNCHANGED <<isMobile, previousMobileRef, isModulesPanelVisible,
                 isSimplePanelVisible, isWidePanelVisible, ResizeObserver,
                 mutationObserver>>
  /\ UNCHANGED <<identVars, tokenVars>>

\* an initStripoEditor that starts the pre-fetch but does not await it before
\* it calls initEditor
StartPrefetchNoAwait(c, ch) ==
  /\ ClearDom
  /\ fetches' = fetches \cup {[id |-> c, kind |-> "prefetch"]}
  /\ chains' = [chains EXCEPT ![c] =
                  [ch EXCEPT !.pc = "watchdog", !.prefetch = "pending",
                             !.initCalled = TRUE, !.uiAtInit = UIEditor]]
  /\ UNCHANGED stateVars

\* initStripoEditor from the container clear to the await of the token
\* pre-fetch: the chain resumes when that getStripoToken() settles
StartPrefetch(c, ch) ==
  /\ ClearDom
  /\ fetches' = fetches \cup {[id |-> c, kind |-> "prefetch"]}
  /\ setChain(c, [ch EXCEPT !.pc = "prefetch", !.prefetch = "pending"])
  /\ UNCHANGED stateVars

\* the id getOrCreateEmailId generates in the lifecycle scenarios
LifeGenId == "email-1-a"

\* initStripoEditor() called by the chain c, up to its first await
InitStripoEditor(c, ch) ==
  IF ~containerRef
    THEN /\ setLoadingState("error", "Editor container not available")
         /\ setChain(c, [ch EXCEPT !.pc = "done"])
         /\ UNCHANGED <<identVars, domVars, histVars, editorAttached, fetches>>
    ELSE /\ ResolveWith(props, LifeGenId)
         /\ UNCHANGED <<props, proxy, auxVars>>
         /\ IF ~UIEditor
              THEN /\ setLoadingState("error", "Stripo editor script not loaded")
                   /\ setChain(c, [ch EXCEPT !.pc = "done"])
                   /\ UNCHANGED <<domVars, histVars, editorAttached, fetches>>
              ELSE StartPrefetch(c, ch)

\* a lookup that never finds the script element
existingScriptNever == FALSE

\* document.getElementById("UiEditorScript")
existingScript == uiScriptCount > 0

\* what a step that may call initStripoEditor leaves alone
InitFrame ==
  /\ UNCHANGED <<containerRef, effectLive, editorInitializedRef, effectRuns>>
  /\ UNCHANGED <<tokenRef, handlerRegistered, requests, callbackLog, hadSuccess,
                 lastReq, lastOutcome, lastNotification>>
  /\ UNCHANGED patchVars

\* ------------------------------------------------------------------------
\* Framework shim (loadZoneJs)
\* ------------------------------------------------------------------------

\* the polls of loadZoneJs: 100 ticks on an existing tag, 20 after a load
maxAttempts == 100

maxZoneRetries == 20

\* what a step of loadZoneJs leaves alone
ShimFrame ==
  /\ UNCHANGED <<containerRef, effectLive, editorInitializedRef, stateVars,
                 UIEditor, uiScriptCount, uiScriptState,
                 uiEditorCheckIntervalRef, editorAttached, effectRuns>>
  /\ UNCHANGED <<domVars, patchVars, histVars, identVars, tokenVars>>

setZone(c, z) == chains' = [chains EXCEPT ![c].zone = z, ![c].zoneAttempts = 0]

\* else if (attempts >= maxAttempts)
pollGivesUp(attempts) == attempts >= maxAttempts

\* the zone.js script in the document defines window.Zone
ZoneDefined ==
  /\ zoneScripts
  /\ ~Zone
  /\ Zone' = TRUE
  /\ UNCHANGED <<zoneScripts, chains>>
  /\ ShimFrame

\* the executor of loadZoneJs's promise, up to its first wait
ShimStart(c) ==
  /\ chains[c].pc = "loadZoneJs"
  /\ chains[c].zone = "start"
  /\ IF Zone
       THEN setZone(c, "resolved") /\ UNCHANGED zoneScripts
     ELSE IF zoneScripts
       THEN setZone(c, "poll") /\ UNCHANGED zoneScripts
     ELSE \E head \in BOOLEAN :
            IF ~head
              THEN setZone(c, "rejected") /\ UNCHANGED zoneScripts
              ELSE setZone(c, "primaryLoading") /\ zoneScripts' = TRUE
  /\ UNCHANGED Zone
  /\ ShimFrame

\* a tick of checkInterval (existing tag)
ShimPoll(c) ==
  /\ chains[c].pc = "loadZoneJs"
  /\ chains[c].zone = "poll"
  /\ LET attempts == chains[c].zoneAttempts + 1
     IN  IF Zone \/ pollGivesUp(attempts)
           THEN setZone(c, "resolved")
           ELSE chains' = [chains EXCEPT ![c].zoneAttempts = attempts]
  /\ UNCHANGED <<Zone, zoneScripts>>
  /\ ShimFrame

\* script.onload of the primary source: the 200 ms timer is started
ShimPrimaryLoaded(c) ==
  /\ chains[c].pc = "loadZoneJs"
  /\ chains[c].zone = "primaryLoading"
  /\ setZone(c, "primaryTimer")
  /\ UNCHANGED <<Zone, zoneScripts>>
  /\ ShimFrame

\* script.onerror of the primary source: the fallback script is appended
ShimPrimaryError(c) ==
  /\ chains[c].pc = "loadZoneJs"
  /\ chains[c].zone = "primaryLoading"
  /\ setZone(c, "fallbackLoading")
  /\ UNCHANGED <<Zone, zoneScripts>>
  /\ ShimFrame

\* the 200 ms timer after the primary load
ShimPrimaryTimer(c) ==
  /\ chains[c].pc = "loadZoneJs"
  /\ chains[c].zone = "primaryTimer"
  /\ setZone(c, IF Zone THEN "resolved" ELSE "retry")
  /\ UNCHANGED <<Zone, zoneScripts>>
  /\ ShimFrame

\* a tick of retryInterval
ShimRetry(c) ==
  /\ chains[c].pc = "loadZoneJs"
  /\ chains[c].zone = "retry"
  /\ LET retries == chains[c].zoneAttempts + 1
     IN  IF Zone THEN setZone(c, "resolved")
         ELSE IF retries >= maxZoneRetries THEN setZone(c, "rejected")
         ELSE chains' = [chains EXCEPT ![c].zoneAttempts = retries]
  /\ UNCHANGED <<Zone, zoneScripts>>
  /\ ShimFrame

\* fallbackScript.onload: its 200 ms timer is started
ShimFallbackLoaded(c) ==
  /\ chains[c].pc = "loadZoneJs"
  /\ chains[c].zone = "fallbackLoading"
  /\ setZone(c, "fallbackTimer")
  /\ UNCHANGED <<Zone, zoneScripts>>
  /\ ShimFrame

\* fallbackScript.onerror
ShimFallbackError(c) ==
  /\ chains[c].pc = "loadZoneJs"
  /\ chains[c].zone = "fallbackLoading"
  /\ setZone(c, "rejected")
  /\ UNCHANGED <<Zone, zoneScripts>>
  /\ ShimFrame

\* the 200 ms timer after the fallback load
ShimFallbackTimer(c) ==
  /\ chains[c].pc = "loadZoneJs"
  /\ chains[c].zone = "fallbackTimer"
  /\ setZone(c, IF Zone THEN "resolved" ELSE "rejected")
  /\ UNCHANGED <<Zone, zoneScripts>>
  /\ ShimFrame

\* a chain with .then() only: a rejected shim is never followed up
ZoneSettledResolvedOnly(z) == z \in {"pending", "resolved"}

\* the promise of loadZoneJs has settled; "pending" stands for a shim whose
\* steps are taken together with its settling
ZoneSettled(z) == z \in {"pending", "resolved", "rejected"}

\* loadZoneJs() has settled (then and catch both call loadStripoScript), the
\* awaited loadExtensionScript() has resolved, and loadStripoScript() goes on
ZoneSettles(c) ==
  /\ chains[c].pc = "loadZoneJs"
  /\ ZoneSettled(chains[c].zone)
  /\ \E z \in {"resolved", "rejected"} :
       LET ch == [chains[c] EXCEPT !.zone = "settled"]
       IN  IF existingScript /\ UIEditor
             THEN /\ InitStripoEditor(c, ch)
                  /\ UNCHANGED <<uiScriptCount, Zone, zoneScripts, uiScriptState,
                                 uiEditorCheckIntervalRef>>
           ELSE IF existingScript
             THEN /\ uiEditorCheckIntervalRef' = c
                  /\ setChain(c, [ch EXCEPT !.pc = "pollUIEditor",
                                            !.timeout10 = TRUE])
                  /\ UNCHANGED <<uiScriptCount, Zone, zoneScripts, uiScriptState, stateVars,
                                 identVars, domVars, histVars, editorAttached,
                                 fetches>>
           ELSE /\ uiScriptCount' = uiScriptCount + 1
                /\ UNCHANGED <<Zone, zoneScripts>>
                /\ uiScriptState' = "loading"
                /\ setChain(c, [ch EXCEPT !.pc = "scriptLoading"])
                /\ UNCHANGED <<uiEditorCheckIntervalRef, stateVars, identVars,
                               domVars, histVars, editorAttached, fetches>>
  /\ UNCHANGED UIEditor
  /\ InitFrame

\* the chain whose script element is loading
Loader(c) == chains[c].pc = "scriptLoading"

\* script.onload: the 500 ms settle timer is started
ScriptLoaded ==
  /\ uiScriptState = "loading"
  /\ uiScriptState' = "loaded"
  /\ \E defines \in BOOLEAN : UIEditor' = (UIEditor \/ defines)
  /\ chains' = [c \in Chains |->
                  IF Loader(c) THEN [chains[c] EXCEPT !.pc = "settle"]
                               ELSE chains[c]]
  /\ UNCHANGED <<containerRef, effectLive, editorInitializedRef, stateVars,
                 uiScriptCount, Zone, zoneScripts, uiEditorCheckIntervalRef, editorAttached,
                 effectRuns>>
  /\ UNCHANGED <<domVars, patchVars, histVars, identVars, tokenVars>>

\* script.onerror
ScriptError ==
  /\ uiScriptState = "loading"
  /\ uiScriptState' = "failed"
  /\ IF \E c \in Chains : Loader(c)
       THEN /\ setLoadingState("error",
                 "Failed to load Stripo UI Editor script. Please check your internet connection.")
            /\ editorInitializedRef' = FALSE
       ELSE UNCHANGED <<stateVars, editorInitializedRef>>
  /\ chains' = [c \in Chains |->
                  IF Loader(c) THEN [chains[c] EXCEPT !.pc = "done"]
                               ELSE chains[c]]
  /\ UNCHANGED <<containerRef, effectLive, UIEditor, uiScriptCount, Zone, zoneScripts,
                 uiEditorCheckIntervalRef, editorAttached, effectRuns>>
  /\ UNCHANGED <<domVars, patchVars, histVars, identVars, tokenVars>>

\* the loaded bundle defines window.UIEditor after its load event
BundleDefines ==
  /\ uiScriptState = "loaded"
  /\ ~UIEditor
  /\ UIEditor' = TRUE
  /\ UNCHANGED <<containerRef, effectLive, editorInitializedRef, stateVars,
                 uiScriptCount, Zone, zoneScripts, uiScriptState, uiEditorCheckIntervalRef,
                 editorAttached, chains, effectRuns>>
  /\ UNCHANGED <<domVars, patchVars, histVars, identVars, tokenVars>>

\* a check that never misses the bundle
bundleMissingNever == FALSE

\* if (!window.UIEditor)
bundleMissing == ~UIEditor

\* the 500 ms timer started by script.onload
SettleTimer(c) ==
  /\ chains[c].pc = "settle"
  /\ IF ~bundleMissing
       THEN InitStripoEditor(c, chains[c])
       ELSE /\ setLoadingState("error", "Stripo editor failed to load")
            /\ setChain(c, [chains[c] EXCEPT !.pc = "done"])
            /\ UNCHANGED <<identVars, domVars, histVars, editorAttached, fetches>>
  /\ UNCHANGED <<UIEditor, uiScriptCount, Zone, zoneScripts, uiScriptState, uiEditorCheckIntervalRef>>
  /\ InitFrame

\* a tick of the 100 ms poll (existing script, no global yet) that finds
\* window.UIEditor
PollTick(c) ==
  /\ uiEditorCheckIntervalRef = c
  /\ chains[c].pc = "pollUIEditor"
  /\ UIEditor
  /\ uiEditorCheckIntervalRef' = 0
  /\ InitStripoEditor(c, chains[c])
  /\ UNCHANGED <<UIEditor, uiScriptCount, Zone, zoneScripts, uiScriptState>>
  /\ InitFrame

\* the 10 s timer of the poll branch
Timeout10(c) ==
  /\ chains[c].timeout10
  /\ uiEditorCheckIntervalRef' = 0
  /\ setChain(c, [chains[c] EXCEPT !.timeout10 = FALSE,
                    !.pc = IF @ = "pollUIEditor" THEN "done" ELSE @])
  /\ IF bundleMissing
       THEN setLoadingState("error", "Stripo editor failed to load")
       ELSE UNCHANGED stateVars
  /\ UNCHANGED <<containerRef, effectLive, editorInitializedRef, UIEditor,
                 uiScriptCount, Zone, zoneScripts, uiScriptState, editorAttached, effectRuns>>
  /\ UNCHANGED <<domVars, patchVars, histVars, identVars, tokenVars>>

\* the awaited pre-fetch settles; initStripoEditor stores the token, calls
\* window.UIEditor.initEditor (which may throw into the catch block) and starts
\* the render watchdog
PrefetchDone(c, o) ==
  /\ chains[c].pc = "prefetch"
  /\ [id |-> c, kind |-> "prefetch"] \in fetches
  /\ fetches' = fetches \ {[id |-> c, kind |-> "prefetch"]}
  /\ tokenRef' = IF o.ok THEN o.token ELSE tokenRef
  /\ hadSuccess' = (hadSuccess \/ tokenReceived(o))
  /\ lastOutcome' = [id |-> c, kind |-> "prefetch", ok |-> o.ok, token |-> o.token]
  /\ LET ch == [chains[c] EXCEPT !.prefetch = "settled", !.initCalled = TRUE,
                                 !.uiAtInit = UIEditor]
     IN  \E throws \in BOOLEAN :
           IF throws
             THEN /\ setLoadingState("error", "Unknown error initializing Stripo editor")
                  /\ setChain(c, [ch EXCEPT !.pc = "done"])
                  /\ UNCHANGED <<handlerRegistered, editorAttached>>
             ELSE /\ handlerRegistered' = TRUE
                  /\ editorAttached' = containerRef
                  /\ setChain(c, [ch EXCEPT !.pc = "watchdog"])
                  /\ UNCHANGED stateVars
  /\ UNCHANGED <<requests, callbackLog, lastReq, lastNotification>>
  /\ UNCHANGED <<containerRef, effectLive, editorInitializedRef, UIEditor,
                 uiScriptCount, Zone, zoneScripts, uiScriptState, uiEditorCheckIntervalRef,
                 effectRuns>>
  /\ UNCHANGED <<domVars, patchVars, histVars, identVars>>

\* how far the editor has rendered into the container
Stage(u) ==
  CASE u = "absent" -> 0
    [] u = "noShadow" -> 1
    [] u = "emptyShadow" -> 2
    [] u = "rendered" -> 3

\* the shadow tree the editor renders in the lifecycle scenarios
LifeLayout == [depth |-> 1, simple |-> TRUE, parent |-> TRUE]

\* the editor renders: the ui-editor element, its shadow root, its content
EditorRenders(u) ==
  /\ editorAttached
  /\ containerRef
  /\ Stage(u) > Stage(uiEditor)
  /\ uiEditor' = u
  /\ IF u = "rendered"
       THEN nodes' = LayoutNodes(LifeLayout) /\ simpleDepth' = LifeLayout.depth
       ELSE UNCHANGED <<nodes, simpleDepth>>
  /\ UNCHANGED <<style, containerWidth>>
  /\ NoteOther(style, Vis)
  /\ UNCHANGED <<rtPhase, rtStyle, userHidden>>
  /\ UNCHANGED <<patchVars, identVars, tokenVars, lifeVars>>

\* a watchdog for which a render timeout is an error
renderTimeoutStateError == "error"

\* the timeout branches: setLoadingState("loaded") ("Set to loaded anyway")
renderTimeoutState == "loaded"

\* a give-up test that is late by one poll
watchdogGivesUpLate(count) == count > maxRenderChecks + 1

\* renderCheckCount >= maxRenderChecks
watchdogGivesUp(count) == count >= maxRenderChecks

\* a tick of the 500 ms render watchdog of the chain c
WatchdogTick(c) ==
  /\ chains[c].pc = "watchdog"
  /\ chains[c].renderCheckCount <= maxRenderChecks
  /\ LET count == chains[c].renderCheckCount + 1
         ch == [chains[c] EXCEPT !.renderCheckCount = count]
         rendered == containerRef /\ uiEditor \in {"emptyShadow", "rendered"}
         mobile == containerWidth <= Breakpoint
         r == ApplyPositioning(style, Vis, uiEditor, nodes, simpleDepth,
                               containerWidth)
     IN  IF rendered
           THEN /\ previousMobileRef' = mobile
                /\ isMobile' = mobile
                /\ style' = r.style
                /\ SetVis(r.vis)
                /\ NoteCall(containerWidth, r.style, r.vis, TRUE)
                /\ rtPhase' = IF containerWidth = 1300 THEN "wide" ELSE "none"
                /\ userHidden' = {}
                /\ rtStyle' = r.style
                /\ IF ResizeObserver
                     THEN /\ resizeObserverRef' = TRUE
                          /\ UNCHANGED resizeListeners
                     ELSE /\ resizeListeners' = resizeListeners + 1
                          /\ UNCHANGED resizeObserverRef
                /\ UNCHANGED ResizeObserver
                /\ mutationObserver' = TRUE
                /\ setChain(c, [ch EXCEPT !.pc = "done", !.outcome = "rendered"])
                /\ setLoadingState("loaded", errorMessage)
           ELSE /\ IF watchdogGivesUp(count)
                     THEN /\ setChain(c, [ch EXCEPT !.pc = "done",
                                                    !.outcome = "timedOut"])
                          /\ setLoadingState(renderTimeoutState, errorMessage)
                     ELSE /\ setChain(c, ch)
                          /\ UNCHANGED stateVars
                /\ UNCHANGED <<patchVars, style, histVars>>
  /\ UNCHANGED <<uiEditor, nodes, simpleDepth, containerWidth>>
  /\ UNCHANGED <<containerRef, effectLive, editorInitializedRef, UIEditor,
                 uiScriptCount, Zone, zoneScripts, uiScriptState, uiEditorCheckIntervalRef,
                 editorAttached, effectRuns>>
  /\ UNCHANGED <<identVars, tokenVars>>

\* the Retry and the Clear Storage & Retry buttons of the error overlay: the
\* state is set idle and window.location.reload() starts a new page, on which
\* only the Persistent Identity Store survives
Retry(clear) ==
  /\ containerRef
  /\ loadingState = "error"
  /\ Truthy(errorMessage)
  /\ IF clear
       THEN /\ localStorage' = Null
            /\ lastInit' = NoInit
            /\ resolvedIds' = {}
            /\ resolveCount' = 0
            /\ storeWrites' = 0
       ELSE UNCHANGED <<localStorage, lastInit, resolvedIds, resolveCount,
                        storeWrites>>
  /\ UNCHANGED <<props, proxy, auxVars, containerWidth, containerRef>>
  /\ loadingState' = "idle"
  /\ errorMessage' = Null
  /\ attemptFinal' = Null
  /\ effectLive' = FALSE
  /\ editorInitializedRef' = FALSE
  /\ UIEditor' = FALSE
  /\ uiScriptCount' = 0
  /\ Zone' = FALSE
  /\ zoneScripts' = FALSE
  /\ uiScriptState' = "none"
  /\ uiEditorCheckIntervalRef' = 0
  /\ editorAttached' = FALSE
  /\ chains' = [c \in Chains |-> NoChain]
  /\ effectRuns' = 0
  /\ uiEditor' = "absent"
  /\ nodes' = {}
  /\ simpleDepth' = NoDepth
  /\ style' = AllNoStyle
  /\ isMobile' = FALSE
  /\ previousMobileRef' = FALSE
  /\ SetVis(AllVisible)
  /\ resizeObserverRef' = FALSE
  /\ resizeListeners' = 0
  /\ UNCHANGED ResizeObserver
  /\ mutationObserver' = FALSE
  /\ NoteOther(AllNoStyle, AllVisible)
  /\ rtPhase' = "none"
  /\ userHidden' = {}
  /\ rtStyle' = AllNoStyle
  /\ tokenRef' = Null
  /\ fetches' = {}
  /\ handlerRegistered' = FALSE
  /\ requests' = 0
  /\ callbackLog' = <<>>
  /\ hadSuccess' = FALSE
  /\ lastReq' = "none"
  /\ lastOutcome' = NoOutcome
  /\ lastNotification' = NoNotification

\* ------------------------------------------------------------------------
\* Initial states
\* ------------------------------------------------------------------------

\* no editor in the container
DomIdle ==
  /\ uiEditor = "absent"
  /\ nodes = {}
  /\ simpleDepth = NoDepth
  /\ style = AllNoStyle
  /\ isMobile = FALSE
  /\ previousMobileRef = FALSE
  /\ isModulesPanelVisible = TRUE
  /\ isSimplePanelVisible = TRUE
  /\ isWidePanelVisible = TRUE
  /\ resizeObserverRef = FALSE
  /\ ResizeObserver = TRUE
  /\ resizeListeners = 0
  /\ mutationObserver = FALSE
  /\ lastCall = -1
  /\ callsSame = 0
  /\ firstStyle = AllNoStyle
  /\ firstVis = AllVisible
  /\ rtPhase = "none"
  /\ userHidden = {}
  /\ rtStyle = AllNoStyle

\* an empty store, no resolution yet
IdentIdle ==
  /\ localStorage = Null
  /\ lastInit = NoInit
  /\ resolvedIds = {}
  /\ resolveCount = 0
  /\ storeWrites = 0

\* useRef(null) and no request yet
TokenIdle ==
  /\ tokenRef = Null
  /\ fetches = {}
  /\ handlerRegistered = FALSE
  /\ requests = 0
  /\ callbackLog = <<>>
  /\ hadSuccess = FALSE
  /\ lastReq = "none"
  /\ lastOutcome = NoOutcome
  /\ lastNotification = NoNotification

\* a freshly loaded page whose component has rendered but not run its effect
LifeIdle ==
  /\ containerRef = TRUE
  /\ effectLive = FALSE
  /\ editorInitializedRef = FALSE
  /\ loadingState = "idle"
  /\ errorMessage = Null
  /\ UIEditor = FALSE
  /\ uiScriptCount = 0
  /\ Zone = FALSE
  /\ zoneScripts = FALSE
  /\ uiScriptState = "none"
  /\ uiEditorCheckIntervalRef = 0
  /\ editorAttached = FALSE
  /\ chains = [c \in Chains |-> NoChain]
  /\ effectRuns = 0
  /\ attemptFinal = Null

\* the first resolution of a mount without explicit identity has been made
IdentResolved ==
  /\ props = [emailId |-> Null, create |-> FALSE, html |-> Null]
  /\ proxy = NoProxy
  /\ AuxIdle
  /\ localStorage = "email-1-a"
  /\ lastInit = [provided |-> Null, create |-> FALSE, emailId |-> "email-1-a",
                 html |-> DefaultHtml]
  /\ resolvedIds = {"email-1-a"}
  /\ resolveCount = 1
  /\ storeWrites = 1

\* the pre-fetch of the first chain has brought a token, initEditor has the handler
TokenCached ==
  /\ tokenRef = "tok-a"
  /\ fetches = {}
  /\ handlerRegistered = TRUE
  /\ requests = 0
  /\ callbackLog = <<>>
  /\ hadSuccess = TRUE
  /\ lastReq = "none"
  /\ lastOutcome = [id |-> 1, kind |-> "prefetch", ok |-> TRUE, token |-> "tok-a"]
  /\ lastNotification = NoNotification

FirstChain(pc, prefetch, initCalled, count, outcome) ==
  [c \in Chains |->
     IF c = 1
       THEN [pc |-> pc, zone |-> "settled", zoneAttempts |-> 0,
             timeout10 |-> FALSE,
             prefetch |-> prefetch, initCalled |-> initCalled,
             uiAtInit |-> initCalled, renderCheckCount |-> count,
             outcome |-> outcome]
       ELSE NoChain]

\* one effect run whose chain has loaded the bundle, with the given progress
LifeAt(ls, final, attached, ch) ==
  /\ containerRef = TRUE
  /\ effectLive = TRUE
  /\ editorInitializedRef = TRUE
  /\ loadingState = ls
  /\ errorMessage = Null
  /\ UIEditor = TRUE
  /\ uiScriptCount = 1
  /\ Zone = TRUE
  /\ zoneScripts = TRUE
  /\ uiScriptState = "loaded"
  /\ uiEditorCheckIntervalRef = 0
  /\ editorAttached = attached
  /\ chains = ch
  /\ effectRuns = 1
  /\ attemptFinal = final

\* the first chain's watchdog has seen the editor at its first tick
LifeLoaded ==
  LifeAt("loaded", "loaded", TRUE, FirstChain("done", "settled", TRUE, 1, "rendered"))

\* ------------------------------------------------------------------------
\* SpecPatch: the patcher from the moment the watchdog confirmed the render
\* ------------------------------------------------------------------------

\* the state the rendered branch of the watchdog leaves: previousMobileRef and
\* isMobile set from the measured width, applyPositioning(initialWidth) run,
\* both observers connected
InitPatch ==
  /\ uiEditor = "rendered"
  /\ \E l \in Layouts, w \in Widths :
       LET r == ApplyPositioning([n \in StyledNodes |-> NoStyle], AllVisible,
                                 "rendered", LayoutNodes(l), l.depth, w)
       IN  /\ nodes = LayoutNodes(l)
           /\ simpleDepth = l.depth
           /\ containerWidth = w
           /\ style = r.style
           /\ isSimplePanelVisible = r.vis.simple
           /\ isModulesPanelVisible = r.vis.modules
           /\ isWidePanelVisible = r.vis.wide
           /\ isMobile = (w <= Breakpoint)
           /\ previousMobileRef = (w <= Breakpoint)
           /\ lastCall = w
           /\ callsSame = 1
           /\ firstStyle = r.style
           /\ firstVis = r.vis
           /\ rtPhase = IF w = 1300 THEN "wide" ELSE "none"
           /\ rtStyle = r.style
  /\ userHidden = {}
  /\ resizeObserverRef = TRUE
  /\ ResizeObserver = TRUE
  /\ resizeListeners = 0
  /\ mutationObserver = TRUE
  /\ IdentResolved
  /\ TokenCached
  /\ LifeLoaded

NextPatch ==
  \/ \E w \in Widths : Resize(w)
  \/ \E n \in DynamicNodes : DomMutate(n)
  \/ MutationObserverTimeout
  \/ toggleModulesPanel
  \/ toggleSimplePanel
  \/ toggleWidePanel

SpecPatch == InitPatch /\ [][NextPatch]_vars

\* ------------------------------------------------------------------------
\* SpecIdent: mounts under every combination of props, and storage clears, on a
\* store that is empty or holds the id an earlier session generated
\* ------------------------------------------------------------------------

PropsSet == [emailId : ExplicitIds \cup {Null}, create : BOOLEAN,
             html : {Null, CustomHtml}]

InitIdent ==
  /\ DomIdle
  /\ containerWidth = 1300
  /\ localStorage \in GenIds \cup {Null}
  /\ lastInit = NoInit
  /\ resolvedIds = {}
  /\ resolveCount = 0
  /\ storeWrites = 0
  /\ props = [emailId |-> Null, create |-> FALSE, html |-> Null]
  /\ proxy = NoProxy
  /\ AuxIdle
  /\ TokenIdle
  /\ LifeIdle

NextIdent ==
  \/ \E p \in PropsSet : ResolveIdentity(p)
  \/ clearStripoStorage

SpecIdent == InitIdent /\ [][NextIdent]_vars

\* ------------------------------------------------------------------------
\* SpecToken: the broker from the moment the pre-fetch has been started
\* ------------------------------------------------------------------------

InitToken ==
  /\ DomIdle
  /\ containerWidth = 1300
  /\ IdentResolved
  /\ tokenRef = Null
  /\ fetches = {[id |-> 1, kind |-> "prefetch"]}
  /\ handlerRegistered = FALSE
  /\ requests = 0
  /\ callbackLog = <<>>
  /\ hadSuccess = FALSE
  /\ lastReq = "none"
  /\ lastOutcome = NoOutcome
  /\ lastNotification = NoNotification
  /\ LifeAt("loading", Null, FALSE,
            FirstChain("prefetch", "pending", FALSE, 0, "none"))

NextToken ==
  \/ \E o \in Outcomes : PrefetchDone(1, o)
  \/ onTokenRefreshRequest
  \/ \E f \in fetches, o \in Outcomes : FetchDone(f, o)
  \/ \E m \in Messages : notificationsError(m)
  \/ \E k \in {"info", "warn", "success"}, m \in Messages : notificationsLog(k, m)

SpecToken == InitToken /\ [][NextToken]_vars

\* ------------------------------------------------------------------------
\* SpecLife: one component instance on a freshly loaded page
\* ------------------------------------------------------------------------

\* the pre-fetch outcomes of the lifecycle scenarios: a token, or a failure
LifeOutcomes == {o \in Outcomes : o.token = "tok-a" \/ ~o.ok}

InitLife ==
  /\ DomIdle
  /\ containerWidth = 1100
  /\ IdentIdle
  /\ props = [emailId |-> Null, create |-> TRUE, html |-> Null]
  /\ proxy = NoProxy
  /\ AuxIdle
  /\ TokenIdle
  /\ LifeIdle

NextLife ==
  \/ MountEffect
  \/ StrictReplay
  \/ Unmount
  \/ \E c \in Chains : ZoneSettles(c)
  \/ ScriptLoaded
  \/ ScriptError
  \/ BundleDefines
  \/ \E c \in Chains : SettleTimer(c)
  \/ \E c \in Chains : PollTick(c)
  \/ \E c \in Chains : Timeout10(c)
  \/ \E c \in Chains, o \in LifeOutcomes : PrefetchDone(c, o)
  \/ \E u \in {"noShadow", "emptyShadow", "rendered"} : EditorRenders(u)
  \/ \E c \in Chains : WatchdogTick(c)
  \/ \E clear \in BOOLEAN : Retry(clear)

SpecLife == InitLife /\ [][NextLife]_vars

\* ------------------------------------------------------------------------
\* SpecShim: the framework shim of one effect run, step by step
\* ------------------------------------------------------------------------

\* the effect has just run on a page where zone.js and the editor bundle may
\* already be there (an earlier mount, another script of the page)
InitShim ==
  /\ DomIdle
  /\ containerWidth = 1100
  /\ IdentIdle
  /\ props = [emailId |-> Null, create |-> TRUE, html |-> Null]
  /\ proxy = NoProxy
  /\ AuxIdle
  /\ TokenIdle
  /\ containerRef = TRUE
  /\ effectLive = TRUE
  /\ editorInitializedRef = TRUE
  /\ loadingState = "loading"
  /\ errorMessage = Null
  /\ attemptFinal = Null
  /\ \E bundle \in {"none", "tag", "loaded"} :
       /\ UIEditor = (bundle = "loaded")
       /\ uiScriptCount = IF bundle = "none" THEN 0 ELSE 1
       /\ uiScriptState = IF bundle = "none" THEN "none" ELSE "loaded"
  /\ Zone \in BOOLEAN
  /\ zoneScripts \in BOOLEAN
  /\ uiEditorCheckIntervalRef = 0
  /\ editorAttached = FALSE
  /\ chains = [c \in Chains |->
                 IF c = 1 THEN [NoChain EXCEPT !.pc = "loadZoneJs",
                                               !.zone = "start"]
                          ELSE NoChain]
  /\ effectRuns = 1

NextShim ==
  \/ ZoneDefined
  \/ ShimStart(1)
  \/ ShimPoll(1)
  \/ ShimPrimaryLoaded(1)
  \/ ShimPrimaryError(1)
  \/ ShimPrimaryTimer(1)
  \/ ShimRetry(1)
  \/ ShimFallbackLoaded(1)
  \/ ShimFallbackError(1)
  \/ ShimFallbackTimer(1)
  \/ ZoneSettles(1)

\* timers and the load / error event of an appended script do fire
SpecShim == InitShim /\ [][NextShim]_vars /\ WF_vars(NextShim)

\* ------------------------------------------------------------------------
\* SpecProxy: one POST to the template creation proxy, for every request
\* ------------------------------------------------------------------------

InitProxy ==
  /\ DomIdle
  /\ containerWidth = 1100
  /\ IdentIdle
  /\ props = [emailId |-> Null, create |-> TRUE,
              html |-> Null]
  /\ \E req \in ProxyRequests : proxy = [phase |-> "request", request |-> req]
  /\ AuxIdle
  /\ TokenIdle
  /\ LifeIdle

NextProxy == ProxyPost

SpecProxy == InitProxy /\ [][NextProxy]_vars

\* ------------------------------------------------------------------------
\* Claims about the Presentation Patcher
\* ------------------------------------------------------------------------

\* C1: repeated patcher calls with the same container width and no other event
\* in between leave the inline styles of every target and the three visibility
\* flags exactly as the first of those calls left them.
C1_IdempotentPatch ==
  callsSame >= 1 => style = firstStyle /\ Vis = firstVis

\* a second consecutive compact call has run with the panels present and hidden
C1_Witness ==
  /\ callsSame >= 2
  /\ lastCall <= Breakpoint
  /\ ModulesPanel \in nodes
  /\ style[ModulesPanel].display = "none"
  /\ style[NarrowPanel].display = "flex"

CompactOnlyFree(s) ==
  /\ s.width = ""
  /\ s.display = ""
  /\ s.flexDirection = ""
  /\ s.flexWrap = ""
  /\ s.minWidth = ""
  /\ s.transform # TranslateXY

\* C2: after the round trip 1300 -> 1100 -> 1300 no target carries a
\* compact-only override, every panel is visible again and every element that
\* is still there has the style it had before the round trip, whatever the
\* editor added or removed and whatever the user toggled while compact.
C2_RoundTripRestoresWide ==
  rtPhase = "back" =>
    /\ \A n \in StyledNodes : Present(n) => CompactOnlyFree(style[n])
    /\ Vis = AllVisible
    /\ \A n \in StyledNodes : Present(n) => style[n] = rtStyle[n]

\* ------------------------------------------------------------------------
\* Claims about the Identity Resolver
\* ------------------------------------------------------------------------

\* C3: without an explicit identity, all resolutions against the same store (no
\* clear in between) return one value, which is the stored one; at most the first
\* of them writes the store.
C3_StableIdentity ==
  /\ Cardinality(resolvedIds) <= 1
  /\ storeWrites <= 1
  /\ resolveCount >= 1 => resolvedIds = {localStorage}

C3_Witness ==
  /\ resolveCount >= 2
  /\ storeWrites = 1
  /\ lastInit.provided = Null
  /\ lastInit.emailId = localStorage

\* C4: an explicit identity is handed to the initializer verbatim and the store
\* entry is overwritten with it.
C4_ExplicitPersisted ==
  Truthy(lastInit.provided) =>
    /\ lastInit.emailId = lastInit.provided
    /\ localStorage = lastInit.provided

\* ------------------------------------------------------------------------
\* Claims about the Token Broker
\* ------------------------------------------------------------------------

\* C5: once a token fetch has succeeded, every onTokenRefreshRequest invocation
\* hands the cached token to the callback within the invocation and starts a
\* background fetch, and a background fetch that succeeds replaces the cache.
C5_CacheFirst ==
  [][ /\ (hadSuccess /\ requests' = requests + 1) =>
           /\ Truthy(tokenRef)
           /\ callbackLog' = Append(callbackLog, tokenRef)
           /\ fetches' = fetches \cup {[id |-> requests', kind |-> "background"]}
      /\ (lastOutcome' # lastOutcome /\ lastOutcome'.kind = "background"
            /\ lastOutcome'.ok) => tokenRef' = lastOutcome'.token ]_vars

\* ------------------------------------------------------------------------
\* Claims about the bootstrap, the lifecycle and the render watchdog
\* ------------------------------------------------------------------------

InFlight(c) == chains[c].pc \notin {"none", "done"}

\* C6: a render watchdog stops after at most maxRenderChecks polls with an
\* outcome, whether or not a shadow root appears or the container is there.
C6_WatchdogStops ==
  \A c \in Chains :
    /\ chains[c].renderCheckCount <= maxRenderChecks
    /\ chains[c].pc = "watchdog" => /\ chains[c].renderCheckCount < maxRenderChecks
                                    /\ chains[c].outcome = "none"
    /\ chains[c].renderCheckCount = maxRenderChecks =>
         chains[c].pc = "done" /\ chains[c].outcome \in {"rendered", "timedOut"}

C6_Witness ==
  \E c \in Chains :
    /\ chains[c].renderCheckCount = maxRenderChecks
    /\ chains[c].outcome = "timedOut"
    /\ ~containerRef

\* C7: however many bootstrap runs there are, overlapping or not, the document
\* holds exactly one script element with the id UiEditorScript.
C7_OneScript ==
  /\ uiScriptCount <= 1
  /\ (\E c \in Chains : chains[c].pc \notin {"none", "loadZoneJs"}) =>
       uiScriptCount = 1

C7_Witness ==
  /\ uiScriptCount = 1
  /\ \A c \in Chains : chains[c].pc \notin {"none", "loadZoneJs"}

\* C8: initEditor is invoked only after the shim step has settled, with the
\* bundle global present, and after the token pre-fetch has completed.
C8_InitOrder ==
  \A c \in Chains :
    chains[c].initCalled =>
      /\ chains[c].zone = "settled"
      /\ chains[c].uiAtInit
      /\ chains[c].prefetch = "settled"

C8_Witness ==
  \E c \in Chains :
    /\ chains[c].initCalled
    /\ chains[c].pc = "watchdog"
    /\ lastOutcome = [id |-> c, kind |-> "prefetch", ok |-> FALSE, token |-> Null]

\* C9: no two initialization chains of one instance are in flight at once and
\* initEditor is invoked at most once per mount, also when the effect runs, is
\* cleaned up and runs again while the first chain is pending.
C9_SingleChain ==
  /\ Cardinality({c \in Chains : InFlight(c)}) <= 1
  /\ Cardinality({c \in Chains : chains[c].initCalled}) <= 1

\* C10: once loadingState has reached loaded or error in an attempt it takes no
\* other value in that attempt.
C10_TerminalStateKept ==
  attemptFinal # Null => loadingState = attemptFinal

\* ------------------------------------------------------------------------
\* Claims about teardown
\* ------------------------------------------------------------------------

\* the step in which React unmounts the component and the cleanup runs
UnmountStep == containerRef /\ ~containerRef'

\* C11: right after the unmount cleanup no interval or timeout of the session
\* is pending: bundle-symbol poll, its 10 s timeout, the 500 ms settle timer, the
\* render watchdog and the mutation-watch disconnect timer are all cleared.
C11_TimersCleared ==
  [][ UnmountStep =>
        /\ uiEditorCheckIntervalRef' = 0
        /\ \A c \in Chains : /\ chains'[c].pc \notin {"watchdog", "settle"}
                             /\ ~chains'[c].timeout10
        /\ ~mutationObserver' ]_vars

\* C12: right after the unmount cleanup no observer or listener of the session
\* is connected: ResizeObserver, shadow-root MutationObserver, global error and
\* unhandled-rejection listeners.
C12_ObserversDisconnected ==
  [][ UnmountStep =>
        /\ ~resizeObserverRef'
        /\ ~mutationObserver'
        /\ ~errorListeners' ]_vars

\* the step in which the cleanup runs and the effect runs again on the instance
ReplayStep ==
  /\ containerRef /\ containerRef'
  /\ effectLive
  /\ effectRuns = 1
  /\ effectRuns' = 2 \/ (effectRuns' = 1 /\ ~effectLive')

C14_NoWritesAfterTeardown ==
  [][ ~containerRef =>
        /\ loadingState' = loadingState
        /\ errorMessage' = errorMessage
        /\ tokenRef' = tokenRef
        /\ \A c \in Chains : chains'[c].initCalled = chains[c].initCalled ]_vars

\* ------------------------------------------------------------------------
\* Claims about the notification sink
\* ------------------------------------------------------------------------

\* a message reporting a creation limit or an exceeded quota
IdentityLimit(message) ==
  includesLower(message, "limit") \/ includesLower(message, "exceeded")

\* C15: when notifications.error receives an identity-limit message, the store
\* entry under stripo-email-id is removed and the message is not forwarded to
\* the visible error output.
C15_LimitClearsIdentity ==
  [][ (/\ lastNotification' # lastNotification
       /\ lastNotification'.kind = "error"
       /\ IdentityLimit(lastNotification'.message)) =>
        /\ localStorage' = Null
        /\ ~lastNotification'.shown ]_vars

\* ------------------------------------------------------------------------
\* Claims about the identity handed to the initializer
\* ------------------------------------------------------------------------

\* C16: with no explicit identity, an empty store and shouldCreate false, the
\* identity handed to the initializer is newly generated and the store is still
\* empty after the resolution.
C16_EphemeralIdentity ==
  [][ (/\ lastInit' # lastInit
       /\ localStorage = Null
       /\ ~Truthy(lastInit'.provided)
       /\ ~lastInit'.create) =>
        /\ lastInit'.emailId \in GenIds
        /\ localStorage' = Null ]_vars

\* C17: in a fresh session (no explicit identity, empty store, shouldCreate) a
\* generated identity is in the store before initEditor is invoked, written
\* once, and initEditor gets that stored identity and DEFAULT_HTML.
C17_FreshSessionIdentity ==
  (\E c \in Chains : chains[c].initCalled) =>
    /\ lastInit.emailId \in GenIds
    /\ localStorage = lastInit.emailId
    /\ storeWrites = 1
    /\ lastInit.html = DefaultHtml

C17_Witness ==
  /\ \E c \in Chains : chains[c].initCalled /\ chains[c].pc = "watchdog"
  /\ localStorage = LifeGenId
  /\ lastInit.emailId = LifeGenId
  /\ resolveCount = 1
  /\ ~Truthy(props.emailId) /\ props.create /\ ~Truthy(props.html)

\* ------------------------------------------------------------------------
\* Claims about token answers and failures
\* ------------------------------------------------------------------------

\* C18: the editor's callback is never invoked with an undefined, null or
\* empty token, whatever the token endpoint returns.
C18_CallbackGetsFreshToken ==
  \A i \in 1..Len(callbackLog) : Truthy(callbackLog[i])

\* the catch branch of a refresh is reached: getStripoToken() threw, or the
\* success log threw on the missing token
refreshFailed(o) == ~o.ok \/ lengthThrows(o.token)

\* C19: a background refresh that fails leaves cachedToken, loadingState and
\* errorMessage as they were, and the next onTokenRefreshRequest answers from
\* the cache and starts a new background refresh.
C19_FailedRefreshKeepsCache ==
  [][ /\ (/\ lastOutcome' # lastOutcome
          /\ lastOutcome'.kind = "background"
          /\ refreshFailed(lastOutcome')) =>
            /\ tokenRef' = tokenRef
            /\ loadingState' = loadingState
            /\ errorMessage' = errorMessage
      /\ (/\ requests' = requests + 1
          /\ lastOutcome.kind = "background"
          /\ refreshFailed(lastOutcome)) =>
            /\ Truthy(tokenRef)
            /\ callbackLog' = Append(callbackLog, tokenRef)
            /\ fetches' = fetches \cup {[id |-> requests', kind |-> "background"]}
    ]_vars

\* C20: when the token pre-fetch fails (credentials not configured), the
\* attempt ends with loadingState = error and a message, and initEditor is not
\* invoked in that attempt.
C20_ConfigErrorFatal ==
  [][ (/\ lastOutcome' # lastOutcome
       /\ lastOutcome'.kind = "prefetch"
       /\ ~lastOutcome'.ok) =>
         /\ ~chains'[lastOutcome'.id].initCalled
         /\ loadingState' = "error"
         /\ errorMessage' # Null ]_vars

\* ------------------------------------------------------------------------
\* Claims about the soft dependency and what the user sees
\* ------------------------------------------------------------------------

ShimPending == chains[1].pc = "loadZoneJs"

BundleLoadStarted == chains[1].pc \in {"scriptLoading", "pollUIEditor", "prefetch"}

\* C21: whatever the framework shim does (marker present, never appearing on
\* an existing tag, missing after the retries, load error and fallback), the
\* step settles, the bundle load is then started, and the shim never sets
\* loadingState to error.
C21_ShimNeverBlocks ==
  /\ [](loadingState = "loading" /\ errorMessage = Null)
  /\ ShimPending ~> BundleLoadStarted

C21_Witness ==
  /\ chains[1].zone = "settled"
  /\ chains[1].pc = "scriptLoading"
  /\ zoneScripts
  /\ ~Zone

\* what the component's JSX shows over and in the container
Spinner == loadingState = "loading"

ErrorPanel == loadingState = "error" /\ Truthy(errorMessage)

Content == uiEditor # "absent"

\* C22: after mount the user sees the spinner, the editor content or the error
\* panel: loadingState = error comes with a non-empty errorMessage, and the
\* mounted component never shows nothing at all.
C22_NeverBlank ==
  /\ loadingState = "error" => Truthy(errorMessage)
  /\ (containerRef /\ effectRuns > 0) => (Spinner \/ ErrorPanel \/ Content)

\* C23: a render timeout is not fatal: when the watchdog gives up, at its 40th
\* poll with no encapsulated subtree in sight, loadingState becomes loaded and
\* errorMessage is left as it was (unset).
C23_RenderTimeoutNonFatal ==
  [][ \A c \in Chains :
        (chains[c].outcome = "none" /\ chains'[c].outcome = "timedOut") =>
          /\ chains'[c].renderCheckCount = maxRenderChecks
          /\ ~(containerRef /\ uiEditor \in {"emptyShadow", "rendered"})
          /\ loadingState' = "loaded"
          /\ errorMessage' = errorMessage ]_vars

C23_Witness ==
  /\ chains[1].outcome = "timedOut"
  /\ chains[1].renderCheckCount = maxRenderChecks
  /\ loadingState = "loaded"
  /\ errorMessage = Null
  /\ uiEditor = "absent"

\* ------------------------------------------------------------------------
\* Claims about the two layouts of the patcher
\* ------------------------------------------------------------------------

\* the last event was a patcher call, made with this width
PatchedAt(w) == callsSame >= 1 /\ lastCall = w

\* every element applyPositioning looks for is there and is reached
AllTargets ==
  /\ uiEditor = "rendered"
  /\ nodes = ShadowNodes
  /\ walkFindsSimplePanel(nodes, simpleDepth)

C25_WideLayout ==
  (\E w \in Widths : w > Breakpoint /\ PatchedAt(w)) =>
    /\ \A n \in StyledNodes :
         Present(n) =>
           /\ style[n].width = ""
           /\ style[n].display = ""
           /\ style[n].flexDirection = ""
           /\ style[n].flexWrap = ""
           /\ style[n].minWidth = ""
           /\ style[n].transform \in {"", TranslateX}
    /\ Vis = AllVisible

PanelFlag(p) ==
  CASE p = SimplePanel -> isSimplePanelVisible
    [] p = ModulesPanel -> isModulesPanelVisible
    [] p = WidePanel -> isWidePanelVisible

\* C26: once a resize has taken the container from compact to wide, every
\* panel the user had hidden with its toggle while compact has no display
\* override and its visibility flag is true.
C26_LeaveCompactRestores ==
  (uiEditor = "rendered" /\ ~previousMobileRef) =>
    \A p \in userHidden : style[p].display = "" /\ PanelFlag(p)

C26_Witness ==
  /\ uiEditor = "rendered"
  /\ ~previousMobileRef
  /\ lastCall > Breakpoint
  /\ SimplePanel \in userHidden
  /\ BlocksPanel \notin nodes
  /\ style[SimplePanel].display = ""
  /\ isSimplePanelVisible

\* ------------------------------------------------------------------------
\* Claims about the notification sink
\* ------------------------------------------------------------------------

\* C27: no delivery to the notification sink (info, warn, error, success; 403
\* / plugin-config, connection and limit errors included) changes loadingState
\* or errorMessage.
C27_SinkLeavesState ==
  [][ (lastNotification' # lastNotification /\ lastNotification'.kind # "none") =>
        /\ loadingState' = loadingState
        /\ errorMessage' = errorMessage ]_vars

C27_Witness ==
  /\ lastNotification.kind = "error"
  /\ includes(lastNotification.message, "403")
  /\ ~lastNotification.shown
  /\ loadingState = "loading"
  /\ errorMessage = Null

\* ------------------------------------------------------------------------
\* Claims about the template creation proxy
\* ------------------------------------------------------------------------

\* C28: a POST to the template creation proxy always succeeds: for every
\* request body and every outcome of the remote calls the response has a
\* success status and a freshly generated identifier.
C28_ProxyAlwaysSucceeds ==
  proxy.phase = "responded" =>
    /\ proxy.response.status = 200
    /\ proxy.response.generated
    /\ proxy.response.emailId \in GenIds

\* ------------------------------------------------------------------------
\* Claims about the hard dependency and the render watchdog
\* ------------------------------------------------------------------------

\* the chain c meets a failure of the editor bundle in this step: the bounded
\* wait on an existing tag expires without the global, the global is absent
\* after the settle delay, or the script's load fails
HardFailure(c) ==
  /\ chains'[c].pc # "none"
  /\ \/ /\ chains[c].pc = "pollUIEditor"
        /\ chains[c].timeout10 /\ ~chains'[c].timeout10
        /\ ~UIEditor
     \/ /\ chains[c].pc = "settle" /\ chains'[c].pc # "settle"
        /\ ~UIEditor
     \/ /\ chains[c].pc = "scriptLoading"
        /\ uiScriptState = "loading" /\ uiScriptState' = "failed"

\* C29: every failure of the hard dependency ends the attempt in error with a
\* message and without initEditor: the attempt is over and never calls it.
C29_HardFailureEndsInError ==
  [][ \A c \in Chains :
        /\ HardFailure(c) =>
             /\ loadingState' = "error"
             /\ Truthy(errorMessage')
             /\ chains'[c].pc = "done"
             /\ ~chains'[c].initCalled
        /\ (chains[c].pc = "done" /\ ~chains[c].initCalled) =>
             ~chains'[c].initCalled ]_vars

C29_Witness ==
  \E c \in Chains :
    /\ chains[c].pc = "done"
    /\ ~chains[c].initCalled
    /\ ~UIEditor
    /\ loadingState = "error"
    /\ errorMessage = "Stripo editor failed to load"

\* C30: the watchdog reports rendered (and runs the patcher) only on a tick at
\* which the editor element's shadow root exists and has at least one child; an
\* empty shadow root does not count and polling continues.
C30_RenderedNeedsChild ==
  [][ \A c \in Chains :
        (chains[c].outcome = "none" /\ chains'[c].outcome = "rendered") =>
          uiEditor = "rendered" ]_vars

\* ------------------------------------------------------------------------
\* Claims about the patcher's targets, observers and toggles
\* ------------------------------------------------------------------------

\* the transform a patcher call with width w sets
TransformAt(w) == IF w <= Breakpoint THEN TranslateXY ELSE TranslateX

\* ue-ui-simple-panel is one of the first ten ancestors of the blocks panel
WithinTenAncestors == SimplePanel \in nodes /\ simpleDepth \in 0..9

\* C31: a patcher call styles ue-ui-simple-panel when it is among the first 10
\* ancestors of ue-blocks-panel-component, otherwise the immediate parent of
\* ue-blocks-panel-component, and neither when that component is absent.
C31_TargetByAncestorWalk ==
  uiEditor = "rendered" =>
    \A w \in Widths :
      LET r == ApplyPositioning(style, Vis, uiEditor, nodes, simpleDepth, w).style
      IN  /\ (BlocksPanel \in nodes /\ WithinTenAncestors) =>
               /\ r[SimplePanel].transform = TransformAt(w)
               /\ r[ParentElement] = style[ParentElement]
          /\ (BlocksPanel \in nodes /\ ~WithinTenAncestors
                /\ ParentElement \in nodes) =>
               /\ r[ParentElement].transform = TransformAt(w)
               /\ r[SimplePanel] = style[SimplePanel]
          /\ BlocksPanel \notin nodes =>
               /\ r[SimplePanel] = style[SimplePanel]
               /\ r[ParentElement] = style[ParentElement]

C31_Witness ==
  /\ callsSame >= 2
  /\ uiEditor = "rendered"
  /\ BlocksPanel \in nodes
  /\ SimplePanel \in nodes
  /\ simpleDepth = maxDepth
  /\ style[ParentElement].transform = TransformAt(lastCall)
  /\ style[SimplePanel] = NoStyle

\* the render watchdog of some chain confirms the rendering in this step, which
\* installs a shadow-root MutationObserver with its own 10 s disconnect timer
RenderConfirmed ==
  \E c \in Chains : /\ chains[c].pc = "watchdog"
                    /\ chains'[c].outcome = "rendered"

\* C32: the shadow-root mutation watch installed at render confirmation is
\* disconnected after its 10 s window, and at most one such watch is connected
\* per session at any time: none is still connected when one is installed.
C32_OneWatchAtATime ==
  [][ RenderConfirmed => ~mutationObserver ]_vars

\* ------------------------------------------------------------------------
\* SpecResize: the render confirmations of a mount and its resize subscription,
\* in browsers with and without ResizeObserver
\* ------------------------------------------------------------------------

\* a chain whose initEditor call has returned and whose watchdog is ticking
WatchingChain ==
  [pc |-> "watchdog", zone |-> "settled", zoneAttempts |-> 0,
   timeout10 |-> FALSE, prefetch |-> "settled", initCalled |-> TRUE,
   uiAtInit |-> TRUE, renderCheckCount |-> 0, outcome |-> NoChain.outcome]

\* the editor has rendered and no watchdog has ticked since; one chain is
\* watching (a production mount) or two (a StrictMode mount)
InitResize ==
  /\ uiEditor = "rendered"
  /\ nodes = LayoutNodes(LifeLayout)
  /\ simpleDepth = LifeLayout.depth
  /\ style = AllNoStyle
  /\ containerWidth \in Widths
  /\ isMobile = FALSE
  /\ previousMobileRef = FALSE
  /\ isModulesPanelVisible = TRUE
  /\ isSimplePanelVisible = TRUE
  /\ isWidePanelVisible = TRUE
  /\ resizeObserverRef = FALSE
  /\ ResizeObserver \in BOOLEAN
  /\ resizeListeners = 0
  /\ mutationObserver = FALSE
  /\ lastCall = -1
  /\ callsSame = 0
  /\ firstStyle = AllNoStyle
  /\ firstVis = AllVisible
  /\ rtPhase = "none"
  /\ userHidden = {}
  /\ rtStyle = AllNoStyle
  /\ IdentResolved
  /\ TokenCached
  /\ containerRef = TRUE
  /\ effectLive = TRUE
  /\ editorInitializedRef = TRUE
  /\ loadingState = "loading"
  /\ errorMessage = Null
  /\ UIEditor = TRUE
  /\ uiScriptCount = 1
  /\ Zone = TRUE
  /\ zoneScripts = TRUE
  /\ uiScriptState = "loaded"
  /\ uiEditorCheckIntervalRef = 0
  /\ editorAttached = TRUE
  /\ attemptFinal = Null
  /\ \E runs \in Chains :
       /\ effectRuns = runs
       /\ chains = [c \in Chains |-> IF c <= runs THEN WatchingChain ELSE NoChain]

NextResize ==
  \/ \E c \in Chains : WatchdogTick(c)
  \/ \E w \in Widths : Resize(w)
  \/ Unmount

SpecResize == InitResize /\ [][NextResize]_vars

\* the resize subscriptions that are active
ResizeSubscriptions == (IF resizeObserverRef THEN 1 ELSE 0) + resizeListeners

\* C33: render confirmations never accumulate listeners: at most one resize
\* subscription (one ResizeObserver, or one window resize listener in the
\* fallback) is active at any time.
C33_OneResizeSubscription == ResizeSubscriptions <= 1

\* ------------------------------------------------------------------------
\* SpecAttempt: one initialization attempt on a page that may already hold the
\* bundle's script element (an earlier mount of the component on this page)
\* ------------------------------------------------------------------------

\* what an earlier attempt left of the bundle: nothing, a script element still
\* loading, one loaded whose global is not yet defined, or the loaded bundle
\* with its global
Bundles == {"none", "loading", "tag", "loaded"}

\* the effect has run, set loadingState to loading and called loadZoneJs
InitAttempt ==
  /\ DomIdle
  /\ containerWidth = 1100
  /\ IdentIdle
  /\ props = [emailId |-> Null, create |-> TRUE, html |-> Null]
  /\ proxy = NoProxy
  /\ AuxIdle
  /\ TokenIdle
  /\ containerRef = TRUE
  /\ effectLive = TRUE
  /\ editorInitializedRef = TRUE
  /\ loadingState = "loading"
  /\ errorMessage = Null
  /\ attemptFinal = Null
  /\ \E bundle \in Bundles :
       /\ UIEditor = (bundle = "loaded")
       /\ uiScriptCount = IF bundle = "none" THEN 0 ELSE 1
       /\ uiScriptState = CASE bundle = "none" -> "none"
                            [] bundle = "loading" -> "loading"
                            [] OTHER -> "loaded"
  /\ Zone = TRUE
  /\ zoneScripts = TRUE
  /\ uiEditorCheckIntervalRef = 0
  /\ editorAttached = FALSE
  /\ chains = [c \in Chains |->
                 IF c = 1 THEN [NoChain EXCEPT !.pc = "loadZoneJs",
                                               !.zone = "pending"]
                          ELSE NoChain]
  /\ effectRuns = 1

\* the attempt of the mounted instance has ended; the application unmounts
\* the component (its cleanup runs) and mounts it again without a page load:
\* a new instance with new refs and state runs the effect, on the same document
Remount ==
  /\ containerRef
  /\ effectLive
  /\ effectRuns = 1
  /\ chains[1].pc = "done"
  /\ ~chains[1].timeout10
  /\ ClearDom
  /\ uiEditorCheckIntervalRef' = 0
  /\ resizeObserverRef' = FALSE
  /\ resizeListeners' = 0
  /\ isMobile' = FALSE
  /\ previousMobileRef' = FALSE
  /\ SetVis(AllVisible)
  /\ tokenRef' = Null
  /\ handlerRegistered' = FALSE
  /\ loadingState' = "loading"
  /\ errorMessage' = Null
  /\ attemptFinal' = Null
  /\ editorInitializedRef' = TRUE
  /\ effectRuns' = 2
  /\ setChain(2, [NoChain EXCEPT !.pc = "loadZoneJs", !.zone = "pending"])
  /\ UNCHANGED <<containerRef, effectLive, UIEditor, uiScriptCount, Zone,
                 zoneScripts, uiScriptState, ResizeObserver, mutationObserver>>
  /\ UNCHANGED <<fetches, requests, callbackLog, hadSuccess, lastReq,
                 lastOutcome, lastNotification>>
  /\ UNCHANGED identVars

NextAttempt ==
  \/ \E c \in Chains : ZoneSettles(c)
  \/ ScriptLoaded
  \/ ScriptError
  \/ BundleDefines
  \/ \E c \in Chains : SettleTimer(c)
  \/ \E c \in Chains : PollTick(c)
  \/ \E c \in Chains : Timeout10(c)
  \/ \E c \in Chains, o \in LifeOutcomes : PrefetchDone(c, o)
  \/ \E u \in {"noShadow", "emptyShadow", "rendered"} : EditorRenders(u)
  \/ \E c \in Chains : WatchdogTick(c)
  \/ Remount

SpecAttempt == InitAttempt /\ [][NextAttempt]_vars

\* a script load event, a timer or a fetch of the attempt is still to fire
AttemptPending ==
  \E c \in Chains : \/ chains[c].pc \notin {"none", "done"}
                    \/ chains[c].timeout10

\* C34: an attempt that has set loadingState to loading ends in loaded or
\* error: there is no reachable state in which loadingState is loading and
\* nothing pending can end it, whatever the order of the 100 ms poll, the
\* appearance of window.UIEditor and the 10 s timeout.
C34_LoadingAlwaysEnds ==
  loadingState = "loading" => AttemptPending

\* the three side panels that have a toggle and a visibility flag
SidePanels == {ModulesPanel, SimplePanel, WidePanel}

\* the side panels the user has shown on compact: every compact patcher call
\* hides the three panels and clears their flags, so a displayed panel whose
\* flag is set has been shown with its toggle since the last call
UserShown ==
  IF isMobile
    THEN {p \in SidePanels \cap nodes : PanelFlag(p) /\ style[p].display # "none"}
    ELSE {}

\* C35: while the container stays compact, a side panel the user has shown with
\* its toggle stays shown (no display: none) until the user hides it again:
\* patcher re-runs caused by resizes within the compact range or by shadow-root
\* mutations do not hide it.
C35_ShownPanelStaysShown ==
  [][ \A p \in UserShown :
        (p \in nodes' /\ containerWidth' <= Breakpoint /\ p \notin userHidden')
          => style'[p].display # "none" ]_vars

\* C36: in every reachable state, for each of the modules, simple and wide
\* panels that is present, the visibility flag agrees with the DOM: the flag is
\* false exactly when the panel carries display: none.
C36_FlagAgreesWithDom ==
  \A p \in SidePanels \cap nodes : PanelFlag(p) = (style[p].display # "none")

\* this step completes a background refresh with a token
RefreshCompletes ==
  /\ fetches' # fetches
  /\ fetches' \subseteq fetches
  /\ lastOutcome'.kind = "background"
  /\ lastOutcome'.ok
  /\ lastOutcome'.token \in Tokens

\* C37: with several background refreshes in flight, the cached token ends as
\* the one returned for the most recently issued request: the response of an
\* older request that arrives after the response of a newer one does not
\* overwrite the newer token.
C37_OlderResponseKeepsNewer ==
  [][ ( /\ RefreshCompletes
        /\ lastOutcome.kind = "background"
        /\ lastOutcome.ok
        /\ lastOutcome.token \in Tokens
        /\ lastOutcome'.id < lastOutcome.id )
      => tokenRef' = tokenRef ]_vars

\* C38: after a network error on the bundle, the attempt of a component mounted
\* again on the same page requests the bundle again: when its loadStripoScript
\* runs while the failed script element is in the document, it appends a new
\* script element.
C38_FailedBundleRequestedAgain ==
  [][ ( /\ uiScriptState = "failed"
        /\ effectRuns = 2
        /\ chains[2].pc = "loadZoneJs"
        /\ chains'[2].pc # "loadZoneJs" )
      => /\ uiScriptState' = "loading"
         /\ uiScriptCount' = uiScriptCount + 1 ]_vars

\* ------------------------------------------------------------------------
\* SpecPage: the editor page, its template selections and their fetches
\* ------------------------------------------------------------------------

InitPage ==
  /\ DomIdle
  /\ containerWidth = 1100
  /\ IdentIdle
  /\ props = [emailId |-> Null, create |-> TRUE, html |-> Null]
  /\ proxy = NoProxy
  /\ AuxIdle
  /\ TokenIdle
  /\ LifeIdle

NextPage ==
  \/ \E t \in PageTemplates \cup {Null} : handleTemplateSelect(t)
  \/ \E f \in page.fetches, o \in PageOutcomes : loadTemplateContentSettles(f, o)

SpecPage == InitPage /\ [][NextPage]_vars

\* C39: when the user selects a template and then another before the first
\* fetch completes, once every fetch has completed the HTML and CSS passed to
\* the editor are those of the current selection, for every arrival order; and
\* loadingTemplate is true exactly while a fetch for the current selection is
\* in flight.
C39_LatestSelectionWins ==
  /\ ( /\ page.fetches = {}
       /\ page.selectedTemplate \in RemoteTemplates
       /\ page.templateHtml # Null )
     => /\ page.templateHtml = TemplateHtml(page.selectedTemplate)
        /\ page.templateCss = TemplateCss(page.selectedTemplate)
  /\ page.selectedTemplate \in RemoteTemplates
     => page.loadingTemplate
          = (\E f \in page.fetches : f.template = page.selectedTemplate)

\* ------------------------------------------------------------------------
\* clearStripoStorage(options) on a store with several keys
\* ------------------------------------------------------------------------

\* const STORAGE_KEY = "stripo-email-id"; a key is the sequence of its parts
STORAGE_KEY == <<"stripo", "-email-id">>

\* the keys a page's localStorage may hold, in the order of localStorage.key(i)
StorageKeys ==
  << STORAGE_KEY, <<"Stripo", "Cache">>, <<"my-", "STRIPO">>, <<"theme">>,
     <<"strip", "-o">> >>

StorageValues == {"v1", "v2"}

\* localStorage.getItem(key): the value, or null
getItem(st, key) ==
  IF \E i \in 1..Len(st) : st[i].key = key
    THEN (CHOOSE e \in {st[i] : i \in 1..Len(st)} : e.key = key).value
    ELSE Null

\* localStorage.removeItem(key)
removeItem(st, key) ==
  LET keep(e) == e.key # key IN SelectSeq(st, keep)

\* a test that compares without lower-casing the key
keyMatchesCaseSensitive(key) == includes(key, "stripo")

\* key && key.toLowerCase().includes("stripo")
keyMatches(key) == includesLower(key, "stripo")

\* the loop over localStorage.key(i) that fills keysToRemove, from index i on
RECURSIVE keysToRemove(_, _)
keysToRemove(st, i) ==
  IF i > Len(st) THEN <<>>
  ELSE IF keyMatches(st[i].key)
    THEN <<st[i].key>> \o keysToRemove(st, i + 1)
    ELSE keysToRemove(st, i + 1)

\* keysToRemove.forEach((key) => localStorage.removeItem(key))
RECURSIVE removeEach(_, _)
removeEach(st, keys) ==
  IF keys = <<>> THEN st
  ELSE removeEach(removeItem(st, Head(keys)), Tail(keys))

\* the options of a call: storageKey undefined (the default applies) or a key,
\* clearAll undefined / false or true
ClearOptions ==
  [storageKey : {<<>>} \cup {StorageKeys[i] : i \in 1..Len(StorageKeys)},
   clearAll : BOOLEAN]

\* the store clearStripoStorage(options) leaves
clearedStorage(st, options) ==
  LET storageKey == IF options.storageKey = <<>> THEN STORAGE_KEY
                                                 ELSE options.storageKey
  IN  IF options.clearAll
        THEN removeEach(st, keysToRemove(st, 1))
        ELSE removeItem(st, storageKey)

\* a call of clearStripoStorage(options) in the browser
clearStripoStorageCall(options) ==
  /\ options \in ClearOptions
  /\ storage' = clearedStorage(storage, options)
  /\ lastClear' = [called |-> TRUE, options |-> options, before |-> storage]
  /\ localStorage' = getItem(storage', STORAGE_KEY)
  /\ UNCHANGED page
  /\ UNCHANGED <<props, resolveCount, lastInit, resolvedIds, storeWrites, proxy>>
  /\ UNCHANGED <<domVars, patchVars, histVars, tokenVars, lifeVars>>

\* ------------------------------------------------------------------------
\* SpecStore: calls of clearStripoStorage on every store over StorageKeys
\* ------------------------------------------------------------------------

\* the entries of the keys of present, in the order of StorageKeys
RECURSIVE Entries(_, _)
Entries(val, i) ==
  IF i > Len(StorageKeys) THEN <<>>
  ELSE IF val[i] = Null THEN Entries(val, i + 1)
  ELSE <<[key |-> StorageKeys[i], value |-> val[i]]>> \o Entries(val, i + 1)

InitStore ==
  /\ DomIdle
  /\ containerWidth = 1100
  /\ resolveCount = 0
  /\ lastInit = NoInit
  /\ resolvedIds = {}
  /\ storeWrites = 0
  /\ props = [emailId |-> Null, create |-> TRUE, html |-> Null]
  /\ proxy = NoProxy
  /\ page = NoPage
  /\ \E val \in [1..Len(StorageKeys) -> StorageValues \cup {Null}] :
       /\ storage = Entries(val, 1)
       /\ localStorage = getItem(Entries(val, 1), STORAGE_KEY)
  /\ lastClear = NoClear
  /\ TokenIdle
  /\ LifeIdle

NextStore == \E options \in ClearOptions : clearStripoStorageCall(options)

SpecStore == InitStore /\ [][NextStore]_vars

\* the key contains "stripo" in some letter case
ContainsStripo(key) ==
  \E i \in 1..Len(key) : key[i] \in {"stripo", "Stripo", "STRIPO"}

\* the key the last call was given, or the default
TargetKey ==
  IF lastClear.options.storageKey = <<>> THEN <<"stripo", "-email-id">>
                                         ELSE lastClear.options.storageKey

\* C40: clearStripoStorage removes exactly its targeted entries: without
\* clearAll only the given key (default "stripo-email-id"), with clearAll every
\* key containing "stripo" in any letter case, none skipped; in both modes every
\* other key keeps its value.
C40_ClearsExactlyTargets ==
  lastClear.called =>
    \A i \in 1..Len(StorageKeys) :
      LET key == StorageKeys[i]
          targeted == IF lastClear.options.clearAll THEN ContainsStripo(key)
                                                    ELSE key = TargetKey
      IN  getItem(storage, key) =
            IF targeted THEN Null ELSE getItem(lastClear.before, key)

C40_Witness ==
  /\ lastClear.called
  /\ lastClear.options.clearAll
  /\ getItem(lastClear.before, <<"Stripo", "Cache">>) # Null
  /\ getItem(lastClear.before, <<"my-", "STRIPO">>) # Null
  /\ getItem(lastClear.before, <<"theme">>) = "v2"
  /\ getItem(storage, <<"Stripo", "Cache">>) = Null
  /\ getItem(storage, <<"theme">>) = "v2"

====
